---------------------------- MODULE Spec2Model ----------------------------
(***************************************************************************)
(* A model of the quest-format engine of pso_gc_tools: the PRS codec of    *)
(* fuzziqer_prs.c, the .qst writer of bindat_to_gcdl and the .qst reader   *)
(* of quest_info.                                                          *)
(*                                                                         *)
(* C buffers are sequences; the C index i is the element i + 1.  A byte    *)
(* that the C program reads without having written it (fresh malloc        *)
(* memory, memory after the end of a buffer) has a value chosen            *)
(* nondeterministically in the initial state.                              *)
(***************************************************************************)
EXTENDS Integers, Sequences, FiniteSets, TLC

VARIABLES
    mode,        \* which program runs: "roundtrip", "raw" (PRS), "qst", "read"
    prsPc,       \* position in the PRS pipeline
    src,         \* prs_compress: the source buffer (size = Len(src))
    srcTail,     \* the bytes that lie in memory after the source buffer
    heapFill,    \* the content of memory handed out by malloc
    pc,          \* prs_compress: the PRS_COMPRESSOR, with the dest buffer
    x,           \* prs_compress: the loop variable x
    maxSrcRead,  \* prs_compress: highest source index a comparison has read
    stream,      \* the compressed buffer given to fuzziqer_prs_decompress_buf
    sz,          \* prs_decompress_size: its registers
    dst_len,     \* fuzziqer_prs_decompress_buf: dst_len
    dec,         \* prs_decompress: its registers, with the dest buffer
    fault,       \* the undefined behaviour that ended the run, or "none"
    qstPc,       \* position in the .qst pipeline (writer, then reader)
    inp,         \* bindat_to_gcdl: the prepared inputs of the .qst writing
    final,       \* bindat_to_gcdl: final_bin, final_dat and the two headers
    qst,         \* the .qst file: the sequence of records written to it
    w,           \* bindat_to_gcdl: the variables of the chunk loop
    rd,          \* load_quest_from_qst: its locals
    canon,       \* the arrangement a file read by quest_info is compared to
    heapAdjacent, \* whether malloc places the second buffer after the first
    tool,        \* the tool whose main runs: bindat_to_gcdl, gci_extract, ...
    toolPc,      \* position in that main
    bin_header,  \* what bin_header points to: the live block or a freed one
    decompressed_bin,      \* the block that decompressed_bin points to
    decompressed_bin_size, \* main: decompressed_bin_size
    decompressed_dat,      \* the tables of the decompressed .dat buffer
    decompressed_dat_size, \* main: decompressed_dat_size
    validation_result,     \* main: validation_result, a set of flags
    validated,   \* what the validators were given and what they returned
    main_returncode, \* main: returncode
    output,      \* the decompressed .bin image compressed into the output
    datWalk      \* validate_quest_dat, display_info: offset and table_index

qstVars == <<qstPc, inp, final, qst, w, rd, canon, heapAdjacent>>

prsVars == <<prsPc, src, srcTail, heapFill, pc, x, maxSrcRead, stream, sz,
             dst_len, dec, fault>>

toolVars == <<tool, toolPc, bin_header, decompressed_bin,
              decompressed_bin_size, decompressed_dat, decompressed_dat_size,
              validation_result, validated, main_returncode, output,
              datWalk>>

(***************************************************************************)
(* The tools that validate a quest.  A decompressed .bin buffer is its     *)
(* QUEST_BIN_HEADER, as a record of the fields the tools use, and the      *)
(* bytes that follow the header; a decompressed .dat buffer is the         *)
(* sequence of the table headers that lie in it one body apart.  A         *)
(* validation result, a bit mask in C, is the set of its flags.            *)
(***************************************************************************)
NoBin ==
    [hdr |-> [object_code_offset |-> 0, bin_size |-> 0, download |-> 0,
              quest_number_byte |-> 0, episode |-> 0, name |-> <<0>>],
     tail |-> <<>>]

NoValidated ==
    [bin |-> {}, bin_length |-> 0, bin_block |-> NoBin, handled_bin |-> {},
     dat |-> {}, dat_length |-> 0, handled_dat |-> {}, aborted |-> FALSE]

NoOutput == [written |-> FALSE, image |-> NoBin, size |-> 0]

\* a 32-bit unsigned value, as its two 16-bit halves
U32(hi, lo) == [hi |-> hi, lo |-> lo]

\* uint32_t offset = 0 and int table_index = 0
NoWalk == [offset |-> U32(0, 0), table_index |-> 0]

\* No tool runs.
ToolIdle ==
    /\ tool = "none"
    /\ toolPc = "off"
    /\ bin_header = "null"
    /\ decompressed_bin = NoBin
    /\ decompressed_bin_size = 0
    /\ decompressed_dat = <<>>
    /\ decompressed_dat_size = 0
    /\ validation_result = {}
    /\ validated = NoValidated
    /\ main_returncode = 0 - 1
    /\ output = NoOutput
    /\ datWalk = NoWalk

----------------------------------------------------------------------------
(* Bounds of the model.                                                    *)

\* longest source buffer given to the compressor
MaxLen == 7
\* longest raw stream given to the decompressor
MaxStreamLen == 4

\* byte values of the source buffers
SrcBytes == {65, 66}
\* byte values fresh heap memory may hold
HeapBytes == {0, 255}
\* byte values of the raw streams
StreamBytes == {0, 2, 5, 255}

----------------------------------------------------------------------------
(* Helpers.                                                                *)

Max(a, b) == IF a >= b THEN a ELSE b
Min(a, b) == IF a <= b THEN a ELSE b

NoComp == [bitpos |-> 0, controlbyteptr |-> 0, srcptr |-> 0, dstptr |-> 0,
           dst |-> <<>>]
NoDec == [bitpos |-> 0, currentbyte |-> 0, sourceptr |-> 0, dest |-> <<>>,
          ret |-> "run"]
NoSz == [bitpos |-> 0, currentbyte |-> 0, sourceptr |-> 0, destptr |-> 0,
         ret |-> "run"]

----------------------------------------------------------------------------
(* fuzziqer_prs.c: the compressor.                                         *)

\* the lookback window of the match search
WindowSize == 8176
\* the longest match
MaxMatch == 255

\* *pc->controlbyteptr >> 1, then |= bit << 7
ShiftIn(c, bit) ==
    [c EXCEPT !.dst[c.controlbyteptr + 1] =
                  (c.dst[c.controlbyteptr + 1] \div 2) + 128 * bit]

\* the next control byte is reserved at dstptr; nothing is stored in it
prs_put_control_save(c) ==
    IF c.bitpos >= 8
    THEN [c EXCEPT !.bitpos = 0, !.controlbyteptr = c.dstptr,
                   !.dstptr = c.dstptr + 1, !.dst = Append(c.dst, heapFill)]
    ELSE c

prs_put_control_bit_nosave(c, bit) ==
    LET s == ShiftIn(c, bit) IN [s EXCEPT !.bitpos = s.bitpos + 1]

prs_put_control_bit(c, bit) ==
    prs_put_control_save(prs_put_control_bit_nosave(c, bit))

prs_put_static_data(c, data) ==
    [c EXCEPT !.dst = Append(c.dst, data), !.dstptr = c.dstptr + 1]

\* the byte at source index i; an index >= size is outside the buffer
SrcByte(i) ==
    IF i < Len(src) THEN src[i + 1]
    ELSE srcTail[Min(i - Len(src) + 1, Len(srcTail))]

prs_init ==
    [bitpos |-> 0, controlbyteptr |-> 0, srcptr |-> 0, dstptr |-> 1,
     dst |-> <<heapFill>>]

prs_finish(c) ==
    LET b == prs_put_control_bit(prs_put_control_bit(c, 0), 1)
        n == IF b.bitpos # 0
             THEN [b EXCEPT !.dst[b.controlbyteptr + 1] =
                       (b.dst[b.controlbyteptr + 1] * (2 ^ b.bitpos)) \div 256]
             ELSE b
    IN  prs_put_static_data(prs_put_static_data(n, 0), 0)

prs_rawbyte(c) ==
    LET b == prs_put_control_bit_nosave(c, 1)
        d == prs_put_static_data(b, SrcByte(b.srcptr))
    IN  prs_put_control_save([d EXCEPT !.srcptr = d.srcptr + 1])

prs_shortcopy(c, offset, size) ==
    LET s  == size - 2
        b1 == prs_put_control_bit(c, 0)
        b2 == prs_put_control_bit(b1, 0)
        b3 == prs_put_control_bit(b2, (s \div 2) % 2)
        b4 == prs_put_control_bit_nosave(b3, s % 2)
    IN  prs_put_control_save(prs_put_static_data(b4, offset % 256))

prs_longcopy(c, offset, size) ==
    LET b1 == prs_put_control_bit(c, 0)
        b2 == prs_put_control_bit_nosave(b1, 1)
    IN  IF size <= 9
        THEN LET d1 == prs_put_static_data(b2,
                           (offset % 32) * 8 + ((size - 2) % 8))
                 d2 == prs_put_static_data(d1, (offset \div 32) % 256)
             IN  prs_put_control_save(d2)
        ELSE LET d1 == prs_put_static_data(b2, (offset % 32) * 8)
                 d2 == prs_put_static_data(d1, (offset \div 32) % 256)
                 d3 == prs_put_static_data(d2, size - 1)
             IN  prs_put_control_save(d3)

\* prs_copy choosing the short form by the size alone
prs_copy_by_size_alone(c, offset, size) ==
    LET e == IF size <= 5
             THEN prs_shortcopy(c, offset, size)
             ELSE prs_longcopy(c, offset, size)
    IN  [e EXCEPT !.srcptr = e.srcptr + size]

prs_copy(c, offset, size) ==
    LET e == IF offset > -256 /\ size <= 5
             THEN prs_shortcopy(c, offset, size)
             ELSE prs_longcopy(c, offset, size)
    IN  [e EXCEPT !.srcptr = e.srcptr + size]

\* memcmp(src + a, src + b, n): the number of leading bytes that are equal
\* (n when the two ranges are equal); the comparison stops at the first
\* difference.  The bytes j .. n-1 are compared in order, the first half
\* before the second.
RECURSIVE memcmp(_, _, _, _)
memcmp(a, b, n, j) ==
    IF j >= n THEN n
    ELSE IF n - j = 1
    THEN IF SrcByte(a + j) # SrcByte(b + j) THEN j ELSE n
    ELSE LET mid  == j + ((n - j) \div 2)
             left == memcmp(a, b, mid, j)
         IN  IF left < mid THEN left ELSE memcmp(a, b, n, mid)

\* the highest index a memcmp of n bytes at b has read, given its result
LastRead(b, n, eq) == b + Min(eq, n - 1)

\* one pass of the do ... while of prs_compress with xsize incremented to k:
\* the memcmp, then the three tests; e.done once the while has failed
ExtendStep(xx, y, k, e) ==
    IF e.done THEN e
    ELSE LET eq  == memcmp(y, xx, k, 0)
             mr2 == Max(e.maxread, LastRead(xx, k, eq))
         IN  [xsize |-> k, maxread |-> mr2,
              done |-> ~(eq = k /\ k < 256 /\ y + k < xx /\ xx + k <= Len(src))]

\* the passes with xsize = lo .. hi in order, the first half before the second
RECURSIVE ExtendRange(_, _, _, _, _)
ExtendRange(xx, y, lo, hi, e) ==
    IF e.done \/ lo > hi THEN e
    ELSE IF lo = hi THEN ExtendStep(xx, y, lo, e)
    ELSE LET mid == lo + ((hi - lo) \div 2)
         IN  ExtendRange(xx, y, mid + 1, hi, ExtendRange(xx, y, lo, mid, e))

\* the do ... while of prs_compress: xsize is incremented, then tested; the
\* test (xsize < 256) ends it at 256 at the latest
Extend(xx, y, xsize, mr) ==
    LET e == ExtendRange(xx, y, xsize + 1, 256,
                         [xsize |-> xsize, maxread |-> mr, done |-> FALSE])
    IN  [xsize |-> e.xsize, maxread |-> e.maxread]

\* one pass of the for loop over y of prs_compress, from its test on
SearchStep(xx, y, s) ==
    IF ~(y > 0 /\ y > xx - WindowSize /\ s.xsize < MaxMatch)
    THEN s
    ELSE LET eq  == memcmp(y, xx, 3, 0)
             mr1 == Max(s.maxread, LastRead(xx, 3, eq))
         IN  IF eq = 3
             THEN LET e  == Extend(xx, y, 3, mr1)
                      xs == e.xsize - 1
                  IN  IF xs > s.lssize
                      THEN [xsize |-> xs, lsoffset |-> -(xx - y),
                            lssize |-> xs, maxread |-> e.maxread]
                      ELSE [s EXCEPT !.xsize = xs, !.maxread = e.maxread]
             ELSE [s EXCEPT !.xsize = 3, !.maxread = mr1]

\* the passes with y = hi down to lo in order, the upper half before the
\* lower; the test (xsize < 255) of the for ends them all
RECURSIVE SearchRange(_, _, _, _)
SearchRange(xx, lo, hi, s) ==
    IF s.xsize >= MaxMatch \/ lo > hi THEN s
    ELSE IF lo = hi THEN SearchStep(xx, lo, s)
    ELSE LET mid == lo + ((hi - lo) \div 2)
         IN  SearchRange(xx, lo, mid, SearchRange(xx, mid + 1, hi, s))

\* the for loop over y of prs_compress, from the state before its test: y
\* runs down to 1 or to the edge of the window, whichever is nearer
Search(xx, y, xsize, lsoffset, lssize, mr) ==
    LET s == SearchRange(xx, Max(1, xx - WindowSize + 1), y,
                         [xsize |-> xsize, lsoffset |-> lsoffset,
                          lssize |-> lssize, maxread |-> mr])
    IN  [lsoffset |-> s.lsoffset, lssize |-> s.lssize, maxread |-> s.maxread]

prs_max_compressed_size(len) ==
    LET l == len + 2
    IN  l + (l \div 8) + (IF l % 8 # 0 THEN 1 ELSE 0)

\* one iteration of the for loop over x of prs_compress
prs_compress_iter ==
    /\ prsPc = "compress"
    /\ x < Len(src)
    /\ LET m == Search(x, x - 3, 0, 0, 0, maxSrcRead)
       IN  /\ maxSrcRead' = m.maxread
           /\ IF m.lssize = 0
              THEN /\ pc' = prs_rawbyte(pc)
                   /\ x' = x + 1
              ELSE /\ pc' = prs_copy(pc, m.lsoffset, m.lssize)
                   /\ x' = x + (m.lssize - 1) + 1
    /\ UNCHANGED <<toolVars, qstVars, mode, prsPc, src, srcTail, heapFill, stream, sz, dst_len,
                   dec, fault>>

\* the end of prs_compress and of fuzziqer_prs_compress: prs_finish, the
\* returned size, and the buffer handed to fuzziqer_prs_decompress_buf
prs_compress_end ==
    /\ prsPc = "compress"
    /\ x >= Len(src)
    /\ LET f == prs_finish(pc)
       IN  /\ pc' = f
           /\ stream' = f.dst
    /\ prsPc' = "buf"
    /\ UNCHANGED <<toolVars, qstVars, mode, src, srcTail, heapFill, x, maxSrcRead, sz, dst_len,
                   dec, fault>>

----------------------------------------------------------------------------
(* fuzziqer_prs.c: the decompressor and the size-only walk.                *)

\* the initial value of bitpos
InitBitpos == 9

\* is the index i inside the compressed buffer of src_len bytes?
InSrc(i) == i < Len(stream)

\* bitpos--, the reload of currentbyte when bitpos reaches 0, and the
\* extraction of the low bit; ok is FALSE when the reload reads a byte at
\* an index >= src_len
GetBit(g) ==
    LET bp == g.bitpos - 1
    IN  IF bp = 0
        THEN IF ~InSrc(g.sourceptr)
             THEN [bitpos |-> 8, currentbyte |-> 0,
                   sourceptr |-> g.sourceptr + 1, flag |-> 0, ok |-> FALSE]
             ELSE [bitpos |-> 8,
                   currentbyte |-> stream[g.sourceptr + 1] \div 2,
                   sourceptr |-> g.sourceptr + 1,
                   flag |-> stream[g.sourceptr + 1] % 2, ok |-> TRUE]
        ELSE [bitpos |-> bp, currentbyte |-> g.currentbyte \div 2,
              sourceptr |-> g.sourceptr, flag |-> g.currentbyte % 2,
              ok |-> TRUE]

\* the copy loop of prs_decompress: n times *destptr++ = *ptr_reg++, with
\* ptr_reg = destptr + disp
RECURSIVE CopyRun(_, _, _)
CopyRun(dest, disp, n) ==
    IF n = 0 THEN [dest |-> dest, ret |-> "run"]
    ELSE IF Len(dest) + disp < 0 THEN [dest |-> dest, ret |-> "dst_underread"]
    ELSE IF Len(dest) >= dst_len THEN [dest |-> dest, ret |-> "dst_overflow"]
    ELSE CopyRun(Append(dest, dest[Len(dest) + disp + 1]), disp, n - 1)

DecState(g, sp, d, r) ==
    [bitpos |-> g.bitpos, currentbyte |-> g.currentbyte, sourceptr |-> sp,
     dest |-> d, ret |-> r]

DecCopy(g, sp, d, n, disp) ==
    LET c == CopyRun(d, disp, n) IN DecState(g, sp, c.dest, c.ret)

\* one iteration of the for (;;) of prs_decompress
prs_decompress_iter(d) ==
    LET b1 == GetBit(d)
    IN  IF ~b1.ok THEN DecState(b1, b1.sourceptr, d.dest, "src_overread")
        ELSE IF b1.flag = 1
        THEN IF ~InSrc(b1.sourceptr)
             THEN DecState(b1, b1.sourceptr, d.dest, "src_overread")
             ELSE IF Len(d.dest) >= dst_len
             THEN DecState(b1, b1.sourceptr, d.dest, "dst_overflow")
             ELSE DecState(b1, b1.sourceptr + 1,
                           Append(d.dest, stream[b1.sourceptr + 1]), "run")
        ELSE
        LET b2 == GetBit(b1)
        IN  IF ~b2.ok THEN DecState(b2, b2.sourceptr, d.dest, "src_overread")
            ELSE IF b2.flag = 1
            THEN IF ~InSrc(b2.sourceptr + 1)
                 THEN DecState(b2, b2.sourceptr, d.dest, "src_overread")
                 ELSE
                 LET r3     == stream[b2.sourceptr + 1]
                     offset == stream[b2.sourceptr + 2] * 256 + r3
                     sp     == b2.sourceptr + 2
                     disp   == (offset \div 8) - 8192
                 IN  IF offset = 0 THEN DecState(b2, sp, d.dest, "returned")
                     ELSE IF r3 % 8 = 0
                     THEN IF ~InSrc(sp)
                          THEN DecState(b2, sp, d.dest, "src_overread")
                          ELSE DecCopy(b2, sp + 1, d.dest,
                                       stream[sp + 1] + 1, disp)
                     ELSE DecCopy(b2, sp, d.dest, (r3 % 8) + 2, disp)
            ELSE
            LET b3 == GetBit(b2)
                b4 == GetBit(b3)
                r3 == 2 * b3.flag + b4.flag
            IN  IF ~b3.ok \/ ~b4.ok \/ ~InSrc(b4.sourceptr)
                THEN DecState(b4, b4.sourceptr, d.dest, "src_overread")
                ELSE DecCopy(b4, b4.sourceptr + 1, d.dest, r3 + 2,
                             stream[b4.sourceptr + 1] - 256)

SzState(g, sp, dp, r) ==
    [bitpos |-> g.bitpos, currentbyte |-> g.currentbyte, sourceptr |-> sp,
     destptr |-> dp, ret |-> r]

\* one iteration of the for (;;) of prs_decompress_size
prs_decompress_size_iter(s) ==
    LET b1 == GetBit(s)
    IN  IF ~b1.ok THEN SzState(b1, b1.sourceptr, s.destptr, "src_overread")
        ELSE IF b1.flag = 1
        THEN SzState(b1, b1.sourceptr + 1, s.destptr + 1, "run")
        ELSE
        LET b2 == GetBit(b1)
        IN  IF ~b2.ok
            THEN SzState(b2, b2.sourceptr, s.destptr, "src_overread")
            ELSE IF b2.flag = 1
            THEN IF ~InSrc(b2.sourceptr + 1)
                 THEN SzState(b2, b2.sourceptr, s.destptr, "src_overread")
                 ELSE
                 LET r3     == stream[b2.sourceptr + 1]
                     offset == stream[b2.sourceptr + 2] * 256 + r3
                     sp     == b2.sourceptr + 2
                 IN  IF offset = 0
                     THEN SzState(b2, sp, s.destptr, "returned")
                     ELSE IF r3 % 8 = 0
                     THEN IF ~InSrc(sp)
                          THEN SzState(b2, sp, s.destptr, "src_overread")
                          ELSE SzState(b2, sp + 1,
                                       s.destptr + stream[sp + 1] + 1, "run")
                     ELSE SzState(b2, sp, s.destptr + (r3 % 8) + 2, "run")
            ELSE
            LET b3 == GetBit(b2)
                b4 == GetBit(b3)
                r3 == 2 * b3.flag + b4.flag
            IN  IF ~b3.ok \/ ~b4.ok \/ ~InSrc(b4.sourceptr)
                THEN SzState(b4, b4.sourceptr, s.destptr, "src_overread")
                ELSE SzState(b4, b4.sourceptr + 1, s.destptr + r3 + 2, "run")

----------------------------------------------------------------------------
(* fuzziqer_prs.c: the exported wrappers, as steps.                        *)

\* fuzziqer_prs_compress up to the call of prs_compress, and prs_init
fuzziqer_prs_compress_begin ==
    /\ prsPc = "start"
    /\ IF Len(src) < 3
       THEN /\ prsPc' = "error"
            /\ UNCHANGED <<pc, x>>
       ELSE /\ prsPc' = "compress"
            /\ pc' = prs_init
            /\ x' = 0
    /\ UNCHANGED <<toolVars, qstVars, mode, src, srcTail, heapFill, maxSrcRead, stream, sz,
                   dst_len, dec, fault>>

\* fuzziqer_prs_decompress_buf up to the first iteration of
\* prs_decompress_size
fuzziqer_prs_decompress_buf_begin ==
    /\ prsPc = "buf"
    /\ IF Len(stream) < 3
       THEN /\ prsPc' = "error"
            /\ UNCHANGED sz
       ELSE /\ prsPc' = "size"
            /\ sz' = [bitpos |-> InitBitpos, currentbyte |-> stream[1],
                      sourceptr |-> 1, destptr |-> 0, ret |-> "run"]
    /\ UNCHANGED <<toolVars, qstVars, mode, src, srcTail, heapFill, pc, x, maxSrcRead, stream,
                   dst_len, dec, fault>>

\* one iteration of prs_decompress_size; on its return, malloc(dst_len) and
\* the entry of prs_decompress
prs_decompress_size_step ==
    /\ prsPc = "size"
    /\ LET s == prs_decompress_size_iter(sz)
       IN  /\ sz' = s
           /\ IF s.ret = "run"
              THEN UNCHANGED <<prsPc, dst_len, dec, fault>>
              ELSE IF s.ret = "returned"
              THEN /\ prsPc' = "decompress"
                   /\ dst_len' = s.destptr
                   /\ dec' = [bitpos |-> InitBitpos,
                              currentbyte |-> stream[1], sourceptr |-> 1,
                              dest |-> <<>>, ret |-> "run"]
                   /\ UNCHANGED fault
              ELSE /\ prsPc' = "fault"
                   /\ fault' = s.ret
                   /\ UNCHANGED <<dst_len, dec>>
    /\ UNCHANGED <<toolVars, qstVars, mode, src, srcTail, heapFill, pc, x, maxSrcRead, stream>>

\* one iteration of prs_decompress; on its return fuzziqer_prs_decompress_buf
\* returns the number of bytes written
prs_decompress_step ==
    /\ prsPc = "decompress"
    /\ LET d == prs_decompress_iter(dec)
       IN  /\ dec' = d
           /\ IF d.ret = "run"
              THEN UNCHANGED <<prsPc, fault>>
              ELSE IF d.ret = "returned"
              THEN /\ prsPc' = "done"
                   /\ UNCHANGED fault
              ELSE /\ prsPc' = "fault"
                   /\ fault' = d.ret
    /\ UNCHANGED <<toolVars, qstVars, mode, src, srcTail, heapFill, pc, x, maxSrcRead, stream,
                   sz, dst_len>>

----------------------------------------------------------------------------
(* The .qst container: quests.h, retvals.h and the constants of            *)
(* quest_info.                                                             *)

PACKET_ID_QUEST_INFO_ONLINE == 68
PACKET_ID_QUEST_INFO_DOWNLOAD == 166
PACKET_ID_QUEST_CHUNK_ONLINE == 19
PACKET_ID_QUEST_CHUNK_DOWNLOAD == 167
QUEST_FILENAME_MAX_LENGTH == 16

SUCCESS == 0
ERROR_BAD_DATA == 4

PACKET_TYPE_ERROR == 0
PACKET_TYPE_HEADER == 1
PACKET_TYPE_DATA == 2
PACKET_TYPE_EOF == 4

QST_TYPE_ONLINE == 1
QST_TYPE_DOWNLOAD == 2

\* the capacity of QST_DATA_CHUNK.data: 1024 bytes in quests.h, scaled here
\* so that a file of more than 256 chunks stays small
DataSize == 16

\* sizeof(PACKET_HEADER): pkt_id, pkt_flags, pkt_size
SizeofPacketHeader == 4
\* sizeof(QST_HEADER.name)
SizeofName == 32
\* sizeof(DOWNLOAD_QUEST_CHUNKS_HEADER): decompressed_size, crypt_key
SizeofDlHeader == 8

\* offsets of the fields of the packed QST_HEADER, and its size
OffName == SizeofPacketHeader
OffFilename == OffName + SizeofName + 2 + 2
OffSize == OffFilename + QUEST_FILENAME_MAX_LENGTH
SizeofQstHeader == OffSize + 4
\* sizeof(QST_DATA_CHUNK): packet header, filename, data, size
SizeofQstDataChunk ==
    SizeofPacketHeader + QUEST_FILENAME_MAX_LENGTH + DataSize + 4

\* the value of a local variable that was never assigned
Uninit == 0 - 1

----------------------------------------------------------------------------
(* Bytes, little-endian integers and C strings.                            *)

Zeros(n) == [i \in 1..n |-> 0]

\* the n bytes of the little-endian integer v, as the x86 build stores it
LE(v, n) == [i \in 1..n |-> (v \div (256 ^ (i - 1))) % 256]

\* the integer a little-endian field holds
RECURSIVE FromLE(_)
FromLE(s) == IF s = <<>> THEN 0 ELSE Head(s) + 256 * FromLE(Tail(s))

\* memcpy(buf + off, bytes, Len(bytes)), for the part that lies inside buf
Poke(buf, off, bytes) ==
    [i \in 1..Len(buf) |->
        IF i > off /\ i <= off + Len(bytes) THEN bytes[i - off] ELSE buf[i]]

\* the bytes off .. off + n - 1 of buf
Peek(buf, off, n) == SubSeq(buf, off + 1, off + n)

\* strlen(s) of a C string stored in the array s; Len(s) when the array
\* holds no NUL
strlen(s) ==
    LET Z == {i \in 1..Len(s) : s[i] = 0}
    IN  IF Z = {} THEN Len(s)
        ELSE (CHOOSE i \in Z : \A j \in Z : i <= j) - 1

\* strncpy(dst, src, n) into an array of n bytes: the characters of src up
\* to its NUL or up to n, the rest filled with NUL
strncpy(s, n) ==
    LET k == Min(strlen(s), n)
    IN  [i \in 1..n |-> IF i <= k THEN s[i] ELSE 0]

\* strncmp(a, b, n) == 0 for two arrays of n bytes
strncmp_eq(a, b, n) == strncpy(a, n) = strncpy(b, n)

\* a ^ b on n-bit values
RECURSIVE Xor(_, _, _)
Xor(a, b, n) ==
    IF n = 0 THEN 0
    ELSE (((a % 2) + (b % 2)) % 2) + 2 * Xor(a \div 2, b \div 2, n - 1)

\* ".bin" and ".dat"
DotBin == <<46, 98, 105, 110>>
DotDat == <<46, 100, 97, 116>>

\* utils.h: whether the C string s ends with the C string suffix
string_ends_with(s, suffix) ==
    /\ Len(s) >= Len(suffix)
    /\ SubSeq(s, Len(s) - Len(suffix) + 1, Len(s)) = suffix

----------------------------------------------------------------------------
(* The stream cipher of the download wrapper (libsylverant, "PC" variant). *)

\* CRYPT_CreateKeys: the cipher state made from the 4 bytes of the 32-bit
\* key that the caller points to
CRYPT_CreateKeys(key) == [key |-> key, word |-> 0]

\* byte b of the i-th keystream word of a state
KeystreamByte(cs, i, b) ==
    LET seed == cs.key[1] + 3 * cs.key[2] + 5 * cs.key[3] + 7 * cs.key[4]
    IN  ((seed + 1) * (cs.word + i + 1) + 13 * b + 5) % 256

\* CRYPT_CryptData: XOR of the keystream over the 4-byte units of buf; a
\* length that is not a positive multiple of 4 is refused and buf is left
\* as it was
CRYPT_CryptData(cs, buf) ==
    IF Len(buf) = 0 \/ Len(buf) % 4 # 0 THEN buf
    ELSE [j \in 1..Len(buf) |->
            Xor(buf[j], KeystreamByte(cs, (j - 1) \div 4, (j - 1) % 4), 8)]

----------------------------------------------------------------------------
(* quests.c: the records of a .qst file.                                   *)

\* generate_qst_header: the 60 bytes of out_header, and whether a strncpy
\* wrote past the end of *out_header.  name is the C string at
\* bin_header->name, which ends at the first NUL at or after that address.
generate_qst_header(src_file, src_file_size, name) ==
    LET h0 == Zeros(SizeofQstHeader)
        h1 == Poke(h0, 0, <<PACKET_ID_QUEST_INFO_DOWNLOAD>>)
        h2 == Poke(h1, 2, LE(SizeofQstHeader, 2))
        h3 == Poke(h2, 1, <<0>>)
        h4 == Poke(h3, OffFilename - 2, LE(0, 2))
        h5 == Poke(h4, OffSize, LE(src_file_size, 4))
        h6 == Poke(h5, OffName, name)
        h7 == Poke(h6, OffFilename, src_file)
    IN  [kind |-> "header",
         raw |-> h7,
         avail |-> SizeofQstHeader,
         smash |-> \/ OffName + Len(name) > SizeofQstHeader
                   \/ OffFilename + Len(src_file) > SizeofQstHeader]

\* generate_qst_data_chunk without its memset: the data bytes after size
\* keep what was in the chunk
generate_qst_data_chunk_without_memset(base_filename, counter, buf, pos, size, of) ==
    [kind |-> "chunk",
     pkt_id |-> PACKET_ID_QUEST_CHUNK_DOWNLOAD,
     pkt_flags |-> counter,
     pkt_size |-> SizeofQstDataChunk,
     filename |-> strncpy(base_filename, QUEST_FILENAME_MAX_LENGTH),
     data |-> Poke([i \in 1..DataSize |-> 255], 0, Peek(buf, pos, size)),
     size |-> size,
     avail |-> SizeofQstDataChunk,
     of |-> of]

\* generate_qst_data_chunk: the chunk that carries size bytes of src,
\* taken at src + pos.  of is not part of the record: it names the file
\* the writer took the bytes from.
generate_qst_data_chunk(base_filename, counter, buf, pos, size, of) ==
    [kind |-> "chunk",
     pkt_id |-> PACKET_ID_QUEST_CHUNK_DOWNLOAD,
     pkt_flags |-> counter,
     pkt_size |-> SizeofQstDataChunk,
     filename |-> strncpy(base_filename, QUEST_FILENAME_MAX_LENGTH),
     data |-> Poke(Zeros(DataSize), 0, Peek(buf, pos, size)),
     size |-> size,
     avail |-> SizeofQstDataChunk,
     of |-> of]

----------------------------------------------------------------------------
(* bindat_to_gcdl: from the compressed payloads to the .qst file.          *)

NoFinal == [final_bin |-> <<>>, final_dat |-> <<>>,
            qst_bin_header |-> <<>>, qst_dat_header |-> <<>>]
NoLoop == [bin_pos |-> 0, bin_done |-> 0, dat_pos |-> 0, dat_done |-> 0,
           bin_counter |-> 0, dat_counter |-> 0]
NoRead == [status |-> "off"]

\* the state of the .qst variables while the PRS codec runs alone
QstIdle ==
    /\ qstPc = "off"
    /\ inp = <<>>
    /\ final = NoFinal
    /\ qst = <<>>
    /\ w = NoLoop
    /\ rd = NoRead
    /\ canon = <<>>
    /\ heapAdjacent = FALSE

\* final data whose cipher is seeded with the first word of the wrapper
\* instead of its crypt_key
FinalDataSeededWithSize(decompressed_size, crypt_key, compressed) ==
    LET dlchunks_header == LE(decompressed_size + SizeofDlHeader, 4)
                             \o LE(crypt_key, 4)
        cs == CRYPT_CreateKeys(Peek(dlchunks_header, 0, 4))
    IN  dlchunks_header \o CRYPT_CryptData(cs, compressed)

\* final_bin, final_dat: the download wrapper, then the payload encrypted
\* in place under the key stored in the wrapper
FinalData(decompressed_size, crypt_key, compressed) ==
    LET dlchunks_header == LE(decompressed_size + SizeofDlHeader, 4)
                             \o LE(crypt_key, 4)
        cs == CRYPT_CreateKeys(Peek(dlchunks_header, 4, 4))
    IN  dlchunks_header \o CRYPT_CryptData(cs, compressed)

\* bindat_to_gcdl, "Preparing final .qst file data" up to the two calls of
\* generate_qst_header.  A strncpy of more than sizeof(name) bytes is a
\* buffer overflow: a build that checks it aborts, another one overwrites
\* the fields that follow name; past the end of the header it smashes the
\* stack.
bindat_to_gcdl_prepare ==
    /\ qstPc = "prepare"
    /\ LET final_bin == FinalData(inp.decompressed_bin_size, inp.bin_key,
                                  inp.compressed_bin)
           final_dat == FinalData(inp.decompressed_dat_size, inp.dat_key,
                                  inp.compressed_dat)
           qst_bin_header == generate_qst_header(inp.bin_base_filename,
                                                 Len(final_bin), inp.name)
           qst_dat_header == generate_qst_header(inp.dat_base_filename,
                                                 Len(final_dat), inp.name)
       IN  /\ final' = [final_bin |-> final_bin, final_dat |-> final_dat,
                        qst_bin_header |-> qst_bin_header,
                        qst_dat_header |-> qst_dat_header]
           /\ \/ /\ ~qst_bin_header.smash
                 /\ ~qst_dat_header.smash
                 /\ qstPc' = "open"
                 /\ fault' = fault
              \/ /\ Len(inp.name) > SizeofName
                 /\ qstPc' = "fault"
                 /\ fault' = "strncpy_overflow"
    /\ UNCHANGED <<toolVars, mode, prsPc, src, srcTail, heapFill, pc, x, maxSrcRead,
                   stream, sz, dst_len, dec, inp, qst, w, rd, canon,
                   heapAdjacent>>

\* bindat_to_gcdl: fopen, the two fwrite of the headers, and the
\* initialisation of the variables of the loop
bindat_to_gcdl_write_headers ==
    /\ qstPc = "open"
    /\ qst' = <<[kind |-> "header", raw |-> final.qst_bin_header.raw,
                 avail |-> SizeofQstHeader],
                [kind |-> "header", raw |-> final.qst_dat_header.raw,
                 avail |-> SizeofQstHeader]>>
    /\ w' = NoLoop
    /\ qstPc' = "chunks"
    /\ UNCHANGED <<toolVars, mode, prsVars, inp, final, rd, canon, heapAdjacent>>

\* the size of the next chunk of a file
ChunkSize(final_size, pos) ==
    IF final_size - pos >= DataSize THEN DataSize ELSE final_size - pos

\* a counter that stops at 255 where the uint8_t wraps
NextCounterSaturating(counter) == IF counter = 255 THEN 255 ELSE counter + 1

\* ++bin_counter, ++dat_counter on a uint8_t
NextCounter(counter) == (counter + 1) % 256

\* an iteration that writes the chunk of the .dat file first
fwrite_chunks_dat_first(bin_written, dat_written) ==
    dat_written \o bin_written

\* what one iteration appends to the file: the fwrite of the .bin branch,
\* then the fwrite of the .dat branch
fwrite_chunks(bin_written, dat_written) == bin_written \o dat_written

\* bindat_to_gcdl: one iteration of while (!bin_done || !dat_done)
bindat_to_gcdl_chunks_iter ==
    /\ qstPc = "chunks"
    /\ w.bin_done = 0 \/ w.dat_done = 0
    /\ LET final_bin_size == Len(final.final_bin)
           final_dat_size == Len(final.final_dat)
           bsize == ChunkSize(final_bin_size, w.bin_pos)
           dsize == ChunkSize(final_dat_size, w.dat_pos)
           bchunk == generate_qst_data_chunk(inp.bin_base_filename,
                         w.bin_counter, final.final_bin, w.bin_pos, bsize,
                         "bin")
           dchunk == generate_qst_data_chunk(inp.dat_base_filename,
                         w.dat_counter, final.final_dat, w.dat_pos, dsize,
                         "dat")
           bin_written == IF w.bin_done = 0 THEN <<bchunk>> ELSE <<>>
           dat_written == IF w.dat_done = 0 THEN <<dchunk>> ELSE <<>>
       IN  /\ qst' = qst \o fwrite_chunks(bin_written, dat_written)
           /\ w' = [bin_pos |-> IF w.bin_done = 0 THEN w.bin_pos + bsize
                                ELSE w.bin_pos,
                    bin_counter |-> IF w.bin_done = 0
                                    THEN NextCounter(w.bin_counter)
                                    ELSE w.bin_counter,
                    bin_done |-> IF w.bin_done = 0
                                    /\ w.bin_pos + bsize >= final_bin_size
                                 THEN 1 ELSE w.bin_done,
                    dat_pos |-> IF w.dat_done = 0 THEN w.dat_pos + dsize
                                ELSE w.dat_pos,
                    dat_counter |-> IF w.dat_done = 0
                                    THEN NextCounter(w.dat_counter)
                                    ELSE w.dat_counter,
                    dat_done |-> IF w.dat_done = 0
                                    /\ w.dat_pos + dsize >= final_dat_size
                                 THEN 1 ELSE w.dat_done]
    /\ UNCHANGED <<toolVars, mode, prsVars, qstPc, inp, final, rd, canon,
                   heapAdjacent>>

\* bindat_to_gcdl: the loop has ended, fclose
bindat_to_gcdl_close ==
    /\ qstPc = "chunks"
    /\ w.bin_done # 0
    /\ w.dat_done # 0
    /\ qstPc' = "written"
    /\ UNCHANGED <<toolVars, mode, prsVars, inp, final, qst, w, rd, canon,
                   heapAdjacent>>

----------------------------------------------------------------------------
(* The runs of the PRS codec.                                              *)

\* all buffers of lengths lo..hi over the byte values in S
Buffers(S, lo, hi) == UNION {[1..n -> S] : n \in lo..hi}

InitPRS ==
    /\ mode \in {"roundtrip", "raw"}
    /\ pc = NoComp
    /\ x = 0
    /\ maxSrcRead = -1
    /\ sz = NoSz
    /\ dst_len = 0
    /\ dec = NoDec
    /\ fault = "none"
    /\ QstIdle
    /\ ToolIdle
    /\ IF mode = "roundtrip"
       THEN /\ prsPc = "start"
            /\ src \in Buffers(SrcBytes, 1, MaxLen)
            /\ srcTail \in [1..3 -> SrcBytes]
            /\ heapFill \in HeapBytes
            /\ stream = <<>>
       ELSE /\ prsPc = "buf"
            /\ src = <<>>
            /\ srcTail = <<0, 0, 0>>
            /\ heapFill = 0
            /\ stream \in Buffers(StreamBytes, 1, MaxStreamLen)

NextPRS ==
    \/ fuzziqer_prs_compress_begin
    \/ prs_compress_iter
    \/ prs_compress_end
    \/ fuzziqer_prs_decompress_buf_begin
    \/ prs_decompress_size_step
    \/ prs_decompress_step

vars == <<mode, prsVars, qstVars, toolVars>>

SpecPRS == InitPRS /\ [][NextPRS]_vars

----------------------------------------------------------------------------
(* Claims about the PRS codec, checked under SpecPRS.                      *)

\* C1: PRS round-trip.  Once fuzziqer_prs_decompress_buf has run on the
\* output of fuzziqer_prs_compress(X), it has returned, and has returned
\* exactly the bytes of X.
C1_RoundTrip ==
    (mode = "roundtrip" /\ prsPc \in {"done", "fault"})
        => (prsPc = "done" /\ dec.dest = src)

\* C2: size-only consistency.  When prs_decompress returns, the count of
\* prs_decompress_size is the number of bytes it wrote, and for a stream
\* produced by the compressor that count is the length of the input.
C2_SizeConsistent ==
    prsPc = "done"
        => /\ dst_len = Len(dec.dest)
           /\ (mode = "roundtrip" => dst_len = Len(src))

\* C3: compressed-size bound.  The bytes prs_compress has written and
\* reserved number at most len + (len >> 3) + 1 + 2 and at most the
\* prs_max_compressed_size(len) bytes that were allocated.
C3_CompressedSizeBound ==
    (mode = "roundtrip" /\ prsPc \in {"compress", "buf"})
        => /\ pc.dstptr <= Len(src) + (Len(src) \div 8) + 1 + 2
           /\ pc.dstptr <= prs_max_compressed_size(Len(src))

\* C4: the match search of the compressor never reads a source byte at an
\* index >= size.
C4_SearchInBounds ==
    mode = "roundtrip" => maxSrcRead < Len(src)

\* C5: the decompressor and the size walk never read a source byte at an
\* index >= src_len and never write past the destination buffer; a source
\* that runs out ends in an error return.
C5_TruncatedIsError ==
    mode = "raw" => fault = "none"

----------------------------------------------------------------------------
(* quest_info: reading a .qst file.                                        *)

\* the pkt_id and pkt_size a record of the file starts with
PktId(r) == IF r.kind = "header" THEN r.raw[1] ELSE r.pkt_id
PktSize(r) ==
    IF r.kind = "header" THEN FromLE(Peek(r.raw, 2, 2)) ELSE r.pkt_size

\* read_next_qst_packet, for a file F of which fpos records were consumed
read_next_qst_packet(F, fpos) ==
    IF fpos >= Len(F) THEN PACKET_TYPE_EOF
    ELSE LET r == F[fpos + 1]
         IN  IF r.avail < SizeofPacketHeader THEN PACKET_TYPE_ERROR
             ELSE IF /\ PktSize(r) = SizeofQstHeader
                     /\ PktId(r) \in {PACKET_ID_QUEST_INFO_ONLINE,
                                      PACKET_ID_QUEST_INFO_DOWNLOAD}
             THEN IF r.avail - SizeofPacketHeader
                        # SizeofQstHeader - SizeofPacketHeader
                  THEN PACKET_TYPE_ERROR ELSE PACKET_TYPE_HEADER
             ELSE IF /\ PktSize(r) = SizeofQstDataChunk
                     /\ PktId(r) \in {PACKET_ID_QUEST_CHUNK_ONLINE,
                                      PACKET_ID_QUEST_CHUNK_DOWNLOAD}
             THEN IF r.avail - SizeofPacketHeader
                        # SizeofQstDataChunk - SizeofPacketHeader
                  THEN PACKET_TYPE_ERROR ELSE PACKET_TYPE_DATA
             ELSE PACKET_TYPE_ERROR

\* load_quest_from_qst: its locals after fopen
LoadStart ==
    [status |-> "run", returncode |-> Uninit, fault |-> "none",
     fpos |-> 0,
     bin_null |-> TRUE, bin_data |-> <<>>,
     dat_null |-> TRUE, dat_data |-> <<>>,
     bin_filename |-> Zeros(QUEST_FILENAME_MAX_LENGTH),
     dat_filename |-> Zeros(QUEST_FILENAME_MAX_LENGTH),
     bin_data_length |-> Uninit, dat_data_length |-> Uninit,
     bin_data_pos |-> Uninit, dat_data_pos |-> Uninit,
     qst_type |-> Uninit,
     first |-> "none", overflow |-> FALSE]

\* return returncode, through the error label or not
LoadReturn(r, returncode) ==
    [r EXCEPT !.status = "returned", !.returncode = returncode]

\* a step that has undefined behaviour
LoadFault(r, what) == [r EXCEPT !.status = "fault", !.fault = what]

\* the PACKET_TYPE_HEADER branch of load_quest_from_qst.  fill is the byte
\* the fresh malloc memory holds.
LoadHeader(r, header, fill) ==
    LET rest == SubSeq(header.raw, OffFilename + 1, SizeofQstHeader)
        filename == SubSeq(rest, 1, strlen(rest))
        array == Peek(header.raw, OffFilename, QUEST_FILENAME_MAX_LENGTH)
        size == FromLE(Peek(header.raw, OffSize, 4))
        qst_type == IF header.raw[1] = PACKET_ID_QUEST_INFO_ONLINE
                    THEN QST_TYPE_ONLINE ELSE QST_TYPE_DOWNLOAD
    IN  IF strlen(rest) = Len(rest)
        THEN LoadFault(r, "header.filename is not terminated")
        ELSE IF string_ends_with(filename, DotBin)
        THEN [r EXCEPT
                !.bin_filename = strncpy(array, QUEST_FILENAME_MAX_LENGTH),
                !.bin_data_length = size,
                !.bin_data_pos = 0,
                !.bin_data = [i \in 1..size |-> fill],
                !.bin_null = FALSE,
                !.first = IF r.bin_null /\ r.dat_null THEN "bin"
                          ELSE IF r.bin_null THEN r.first ELSE "none",
                !.qst_type = qst_type]
        ELSE IF string_ends_with(filename, DotDat)
        THEN [r EXCEPT
                !.dat_filename = strncpy(array, QUEST_FILENAME_MAX_LENGTH),
                !.dat_data_length = size,
                !.dat_data_pos = 0,
                !.dat_data = [i \in 1..size |-> fill],
                !.dat_null = FALSE,
                !.first = IF r.bin_null /\ r.dat_null THEN "dat"
                          ELSE IF r.dat_null THEN r.first ELSE "none",
                !.qst_type = qst_type]
        ELSE LoadReturn(r, ERROR_BAD_DATA)

\* memcpy(buf + pos, data, size) for a heap buffer buf, and what it does
\* to the buffer next, which lies behind buf when adjacent holds
HeapWrite(buf, next, adjacent, pos, data) ==
    [buf |-> Poke(buf, pos, data),
     next |-> IF adjacent /\ pos + Len(data) > Len(buf)
              THEN Poke(next, Max(pos - Len(buf), 0),
                        SubSeq(data, Max(Len(buf) - pos, 0) + 1, Len(data)))
              ELSE next,
     overflow |-> pos + Len(data) > Len(buf)]

\* the PACKET_TYPE_DATA branch of load_quest_from_qst
LoadData(r, data, adjacent) ==
    IF strncmp_eq(data.filename, r.bin_filename, QUEST_FILENAME_MAX_LENGTH)
    THEN IF r.bin_null THEN LoadFault(r, "memcpy to bin_data = NULL")
         ELSE IF data.size > DataSize
         THEN LoadFault(r, "memcpy reads past data.data")
         ELSE LET m == HeapWrite(r.bin_data, r.dat_data,
                                 adjacent /\ r.first = "bin",
                                 r.bin_data_pos, Peek(data.data, 0, data.size))
              IN  [r EXCEPT !.bin_data = m.buf, !.dat_data = m.next,
                            !.overflow = r.overflow \/ m.overflow,
                            !.bin_data_pos = r.bin_data_pos + data.size]
    ELSE IF strncmp_eq(data.filename, r.dat_filename,
                       QUEST_FILENAME_MAX_LENGTH)
    THEN IF r.dat_null THEN LoadFault(r, "memcpy to dat_data = NULL")
         ELSE IF data.size > DataSize
         THEN LoadFault(r, "memcpy reads past data.data")
         ELSE LET m == HeapWrite(r.dat_data, r.bin_data,
                                 adjacent /\ r.first = "dat",
                                 r.dat_data_pos, Peek(data.data, 0, data.size))
              IN  [r EXCEPT !.dat_data = m.buf, !.bin_data = m.next,
                            !.overflow = r.overflow \/ m.overflow,
                            !.dat_data_pos = r.dat_data_pos + data.size]
    ELSE LoadReturn(r, ERROR_BAD_DATA)

\* load_quest_from_qst: one iteration of while (!feof(fp)), with the
\* return that follows the loop when the iteration ends it
load_quest_from_qst_iter(r, F, fill, adjacent) ==
    LET type == read_next_qst_packet(F, r.fpos)
        r1 == [r EXCEPT !.fpos = Min(r.fpos + 1, Len(F))]
    IN  IF type = PACKET_TYPE_EOF THEN LoadReturn(r1, SUCCESS)
        ELSE IF type = PACKET_TYPE_ERROR THEN LoadReturn(r1, ERROR_BAD_DATA)
        ELSE IF type = PACKET_TYPE_HEADER
        THEN LoadHeader(r1, F[r.fpos + 1], fill)
        ELSE LoadData(r1, F[r.fpos + 1], adjacent)

\* decrypt_qst_bindat on one of the two buffers: the key is read from the
\* wrapper, the bytes behind the wrapper are decrypted in place and moved
\* to the front, and the length loses the size of the wrapper
DecryptOne(data, length) ==
    LET cs == CRYPT_CreateKeys(Peek(data, 4, 4))
        decrypted_length == length - SizeofDlHeader
        decrypted == CRYPT_CryptData(cs, Peek(data, SizeofDlHeader,
                                              decrypted_length))
        in_place == Poke(data, SizeofDlHeader, decrypted)
    IN  [data |-> Poke(in_place, 0, decrypted), length |-> decrypted_length]

\* decrypt_qst_bindat, as quest_info calls it on what load_quest_from_qst
\* gave out.  A NULL buffer is dereferenced; a length that is below the
\* size of the wrapper, not assigned, or above the allocation makes the
\* cipher run outside the buffer.
decrypt_qst_bindat(r) ==
    IF r.bin_null \/ r.dat_null
    THEN LoadFault(r, "decrypt_qst_bindat reads through NULL")
    ELSE IF \/ r.bin_data_length < SizeofDlHeader
            \/ r.dat_data_length < SizeofDlHeader
            \/ r.bin_data_length > Len(r.bin_data)
            \/ r.dat_data_length > Len(r.dat_data)
    THEN LoadFault(r, "decrypt_qst_bindat runs outside the buffer")
    ELSE LET b == DecryptOne(r.bin_data, r.bin_data_length)
             d == DecryptOne(r.dat_data, r.dat_data_length)
         IN  [r EXCEPT !.status = "decrypted",
                       !.bin_data = b.data, !.bin_data_length = b.length,
                       !.dat_data = d.data, !.dat_data_length = d.length]

\* quest_info main calls load_quest_from_qst: fopen and the locals
load_quest_from_qst_begin ==
    /\ qstPc = "written"
    /\ rd' = LoadStart
    /\ qstPc' = "load"
    /\ UNCHANGED <<toolVars, mode, prsVars, inp, final, qst, w, canon, heapAdjacent>>

\* load_quest_from_qst: an iteration of its loop
load_quest_from_qst_step ==
    /\ qstPc = "load"
    /\ LET r == load_quest_from_qst_iter(rd, qst, heapFill, heapAdjacent)
       IN  /\ rd' = r
           /\ qstPc' = CASE r.status = "returned" -> "loaded"
                         [] r.status = "fault" -> "fault"
                         [] OTHER -> "load"
           /\ fault' = r.fault
    /\ UNCHANGED <<toolVars, mode, prsPc, src, srcTail, heapFill, pc, x, maxSrcRead,
                   stream, sz, dst_len, dec, inp, final, qst, w, canon,
                   heapAdjacent>>

\* quest_info main, after load_quest_from_qst has returned: the error
\* exit, or decrypt_qst_bindat for a download quest.  A qst_type that
\* load_quest_from_qst never assigned may compare either way.
quest_info_main ==
    /\ qstPc = "loaded"
    /\ \E download \in IF rd.qst_type = Uninit THEN BOOLEAN
                       ELSE {rd.qst_type = QST_TYPE_DOWNLOAD} :
          LET r == IF rd.returncode # SUCCESS \/ ~download
                   THEN [rd EXCEPT !.status = "exit"]
                   ELSE decrypt_qst_bindat(rd)
          IN  /\ rd' = r
              /\ qstPc' = IF r.status = "fault" THEN "fault" ELSE "done"
              /\ fault' = r.fault
    /\ UNCHANGED <<toolVars, mode, prsPc, src, srcTail, heapFill, pc, x, maxSrcRead,
                   stream, sz, dst_len, dec, inp, final, qst, w, canon,
                   heapAdjacent>>

----------------------------------------------------------------------------
(* The runs of the .qst writer followed by the reader.                     *)

\* the number of chunks of the long file, one more than a uint8_t counts
BigChunks == 257

\* a base filename of n bytes with the extension ext
Fname(n, ext) == [i \in 1..(n - Len(ext)) |-> 113] \o ext
\* the C string of n bytes found at bin_header->name
Name(n) == [i \in 1..n |-> 78]
\* a payload of n bytes
Payload(seed, n) == [i \in 1..n |-> (seed + 7 * i) % 256]

FilenamePairs ==
    {<<Fname(5, DotBin), Fname(5, DotDat)>>,
     <<Fname(QUEST_FILENAME_MAX_LENGTH, DotBin),
       Fname(QUEST_FILENAME_MAX_LENGTH, DotDat)>>}
NameLens == {8, SizeofName, 36, 44, 53, 57}
\* values of rand() for the two crypt keys
KeyPairs == {<<0, 305419896>>, <<305419896, 7>>}
\* compressed sizes around the chunk boundary
BinLens == {4, 5, DataSize - 8, DataSize - 4}
DatLens == {4, 2 * DataSize - 8}
\* the compressed size that needs BigChunks chunks
BigLen == (BigChunks - 1) * DataSize + 4 - SizeofDlHeader

QstInput(fn, bl, dl, nl, keys) ==
    [bin_base_filename |-> fn[1], dat_base_filename |-> fn[2],
     compressed_bin |-> Payload(1, bl), compressed_dat |-> Payload(2, dl),
     decompressed_bin_size |-> 468, decompressed_dat_size |-> 70000,
     name |-> Name(nl), bin_key |-> keys[1], dat_key |-> keys[2]]

QstInputs ==
    {QstInput(fn, bl, dl, nl, keys) :
        fn \in FilenamePairs, bl \in BinLens, dl \in DatLens,
        nl \in NameLens, keys \in KeyPairs}
    \cup {QstInput(<<Fname(5, DotBin), Fname(5, DotDat)>>, BigLen,
                   2 * DataSize, 8, <<305419896, 7>>),
          QstInput(<<Fname(5, DotBin), Fname(5, DotDat)>>, DataSize,
                   BigLen, 8, <<305419896, 7>>)}

\* the state of the PRS variables while the .qst tools run
PrsIdle ==
    /\ prsPc = "off"
    /\ src = <<>>
    /\ srcTail = <<0, 0, 0>>
    /\ pc = NoComp
    /\ x = 0
    /\ maxSrcRead = -1
    /\ stream = <<>>
    /\ sz = NoSz
    /\ dst_len = 0
    /\ dec = NoDec
    /\ fault = "none"

InitQst ==
    /\ mode = "qst"
    /\ PrsIdle
    /\ ToolIdle
    /\ heapFill \in HeapBytes
    /\ qstPc = "prepare"
    /\ inp \in QstInputs
    /\ final = NoFinal
    /\ qst = <<>>
    /\ w = NoLoop
    /\ rd = NoRead
    /\ canon = <<>>
    /\ heapAdjacent = FALSE

NextQst ==
    \/ bindat_to_gcdl_prepare
    \/ bindat_to_gcdl_write_headers
    \/ bindat_to_gcdl_chunks_iter
    \/ bindat_to_gcdl_close
    \/ load_quest_from_qst_begin
    \/ load_quest_from_qst_step
    \/ quest_info_main

SpecQst == InitQst /\ [][NextQst]_vars

----------------------------------------------------------------------------
(* Claims about the .qst writer and the round trip, checked under SpecQst. *)

\* the chunk records of the file F that carry bytes of the file f
ChunksOf(F, f) == SelectSeq(F, LAMBDA r : r.kind = "chunk" /\ r.of = f)

\* the sum of the size fields of a sequence of chunk records
RECURSIVE SumSizes(_)
SumSizes(cs) == IF cs = <<>> THEN 0 ELSE Head(cs).size + SumSizes(Tail(cs))

\* the first size bytes of the data of each chunk record, concatenated
RECURSIVE ChunkData(_)
ChunkData(cs) ==
    IF cs = <<>> THEN <<>>
    ELSE Peek(Head(cs).data, 0, Head(cs).size) \o ChunkData(Tail(cs))

\* the size field of a header record
HeaderSize(h) == FromLE(Peek(h.raw, OffSize, 4))

\* C6: I5 for the writer.  In the .qst that bindat_to_gcdl has written, for
\* each of the two files the size fields of its chunk records add up to the
\* size field of its header record, and the chunk data concatenated in
\* order is the wrapper followed by the encrypted payload.
C6_ChunkSizesMatchHeader ==
    (mode = "qst" /\ qstPc = "written")
        => /\ SumSizes(ChunksOf(qst, "bin")) = HeaderSize(qst[1])
           /\ SumSizes(ChunksOf(qst, "dat")) = HeaderSize(qst[2])
           /\ ChunkData(ChunksOf(qst, "bin")) = final.final_bin
           /\ ChunkData(ChunksOf(qst, "dat")) = final.final_dat

\* C7: I6 for the writer.  For each file, the k-th chunk written
\* (k = 0, 1, 2, ...) carries pkt_flags = k mod 256, whatever the chunks of
\* the other file that lie between them.
C7_CountersPerFile ==
    (mode = "qst" /\ qstPc \in {"chunks", "written"})
        => \A f \in {"bin", "dat"} :
              LET cs == ChunksOf(qst, f)
              IN  \A k \in 1..Len(cs) : cs[k].pkt_flags = (k - 1) % 256

\* C7, its case: the bin file has more than 256 chunks, the one after the
\* 256th carries 0 again, and the dat file has its own three chunks
C7_CounterWrapped ==
    /\ mode = "qst"
    /\ qstPc = "written"
    /\ Len(ChunksOf(qst, "bin")) = BigChunks
    /\ BigChunks > 256
    /\ ChunksOf(qst, "bin")[256].pkt_flags = 255
    /\ ChunksOf(qst, "bin")[257].pkt_flags = 0
    /\ Len(ChunksOf(qst, "dat")) = 3
    /\ ChunksOf(qst, "dat")[3].pkt_flags = 2

\* C8: QST round-trip (offline).  Reading back the .qst that the writer
\* made, and decrypting it, ends without a fault and without an error, and
\* gives the two base filenames and the two compressed payloads that were
\* framed.
C8_QstRoundTrip ==
    (mode = "qst" /\ qstPc \in {"done", "fault"})
        => /\ qstPc = "done"
           /\ rd.status = "decrypted"
           /\ rd.bin_filename = strncpy(inp.bin_base_filename,
                                        QUEST_FILENAME_MAX_LENGTH)
           /\ rd.dat_filename = strncpy(inp.dat_base_filename,
                                        QUEST_FILENAME_MAX_LENGTH)
           /\ Peek(rd.bin_data, 0, rd.bin_data_length) = inp.compressed_bin
           /\ Peek(rd.dat_data, 0, rd.dat_data_length) = inp.compressed_dat

----------------------------------------------------------------------------
(* The runs of the reader on the .qst files it may be given.               *)

\* a header record of a file: pkt_id, filename and size as given, the
\* other fields as generate_qst_header leaves them
HeaderRecord(pkt_id, filename, size) ==
    [kind |-> "header",
     raw |-> Poke(generate_qst_header(filename, size, <<>>).raw, 0,
                  <<pkt_id>>),
     avail |-> SizeofQstHeader]

\* the chunk records that carry buf in pieces of the given sizes, counted
\* from k
RECURSIVE ChunkRecords(_, _, _, _, _, _)
ChunkRecords(pkt_id, filename, buf, sizes, k, of) ==
    IF sizes = <<>> THEN <<>>
    ELSE <<[generate_qst_data_chunk(filename, k % 256, buf, 0, Head(sizes),
                                    of) EXCEPT !.pkt_id = pkt_id]>>
         \o ChunkRecords(pkt_id, filename,
                         SubSeq(buf, Head(sizes) + 1, Len(buf)),
                         Tail(sizes), k + 1, of)

\* the sum of a sequence of sizes
RECURSIVE Sum(_)
Sum(sizes) == IF sizes = <<>> THEN 0 ELSE Head(sizes) + Sum(Tail(sizes))

\* the sizes declared by the two headers of the files read
BinDeclared == 12
DatDeclared == 10
\* the sizes of the chunks of a file: the declared size, more than the
\* declared size, less than the declared size, and for the bin file one
\* chunk whose size field is above the capacity of data
BinChunkSizes ==
    {<<8, BinDeclared - 8>>, <<8, BinDeclared - 4>>, <<8>>, <<DataSize + 1>>}
DatChunkSizes == {<<6, DatDeclared - 6>>, <<DatDeclared, 6>>}

\* the header records and the chunk sequences of the two files of a .qst
QstParts(online, bsizes, dsizes) ==
    LET hid == IF online THEN PACKET_ID_QUEST_INFO_ONLINE
               ELSE PACKET_ID_QUEST_INFO_DOWNLOAD
        cid == IF online THEN PACKET_ID_QUEST_CHUNK_ONLINE
               ELSE PACKET_ID_QUEST_CHUNK_DOWNLOAD
        bin == Fname(5, DotBin)
        dat == Fname(5, DotDat)
    IN  [bin_header |-> HeaderRecord(hid, bin, BinDeclared),
         dat_header |-> HeaderRecord(hid, dat, DatDeclared),
         bin_chunks |-> ChunkRecords(cid, bin, Payload(1, Sum(bsizes)),
                                     bsizes, 0, "bin"),
         dat_chunks |-> ChunkRecords(cid, dat, Payload(2, Sum(dsizes)),
                                     dsizes, 0, "dat")]

\* every interleaving of two sequences that keeps the order of each
RECURSIVE Interleavings(_, _)
Interleavings(a, b) ==
    IF a = <<>> THEN {b}
    ELSE IF b = <<>> THEN {a}
    ELSE {<<Head(a)>> \o s : s \in Interleavings(Tail(a), b)}
         \cup {<<Head(b)>> \o s : s \in Interleavings(a, Tail(b))}

\* the files made of the parts p: the two headers in either order, then
\* the chunks of the two files interleaved
Arrangements(p) ==
    UNION {{<<p.bin_header, p.dat_header>> \o s,
            <<p.dat_header, p.bin_header>> \o s} :
           s \in Interleavings(p.bin_chunks, p.dat_chunks)}

\* the arrangement the others are compared to
Canonical(p) ==
    <<p.bin_header, p.dat_header>> \o p.bin_chunks \o p.dat_chunks

\* the files that end early: after any number of whole records, or in the
\* middle of the last record
CutShort(F) ==
    {SubSeq(F, 1, n) : n \in 0..(Len(F) - 1)}
    \cup {[F EXCEPT ![Len(F)].avail = F[Len(F)].avail - 1]}

\* the files that lack the header and the chunks of one of the two files
OneFileOnly(p) ==
    {<<p.bin_header>> \o p.bin_chunks, <<p.dat_header>> \o p.dat_chunks}

\* the files in which a chunk carries a filename that no header record
\* before it has announced: the empty filename, the filename of a header
\* that comes later or never, a filename of no header at all
Unannounced(p) ==
    LET empty == [p.bin_chunks[1] EXCEPT
                     !.filename = Zeros(QUEST_FILENAME_MAX_LENGTH)]
        other == [p.bin_chunks[1] EXCEPT
                     !.filename = strncpy(<<120>> \o DotBin,
                                          QUEST_FILENAME_MAX_LENGTH)]
    IN  {<<empty>>,
         <<p.bin_header, empty>>,
         <<p.dat_header, empty>>,
         <<p.bin_header, p.dat_header, empty>>,
         <<p.bin_chunks[1], p.bin_header, p.dat_header>>,
         <<p.bin_header, p.dat_chunks[1]>>,
         <<p.bin_header, p.dat_header, other>>}

InitRead ==
    /\ mode = "read"
    /\ PrsIdle
    /\ ToolIdle
    /\ heapFill \in HeapBytes
    /\ heapAdjacent \in BOOLEAN
    /\ qstPc = "written"
    /\ inp = <<>>
    /\ final = NoFinal
    /\ w = NoLoop
    /\ rd = NoRead
    /\ \E online \in BOOLEAN, bsizes \in BinChunkSizes,
          dsizes \in DatChunkSizes :
          /\ canon = QstParts(online, bsizes, dsizes)
          /\ qst \in Arrangements(canon) \cup CutShort(Canonical(canon))
                        \cup OneFileOnly(canon) \cup Unannounced(canon)

NextRead ==
    \/ load_quest_from_qst_begin
    \/ load_quest_from_qst_step
    \/ quest_info_main

SpecRead == InitRead /\ [][NextRead]_vars

\* load_quest_from_qst run to its end on the file F
RECURSIVE RunLoad(_, _, _, _)
RunLoad(r, F, fill, adjacent) ==
    IF r.status # "run" THEN r
    ELSE RunLoad(load_quest_from_qst_iter(r, F, fill, adjacent), F, fill,
                 adjacent)

\* what load_quest_from_qst gives its caller: the return code and, with
\* SUCCESS, the two buffers and the two lengths
Loaded(r) ==
    IF r.status = "returned" /\ r.returncode = SUCCESS
    THEN <<SUCCESS, r.bin_null, r.bin_data, r.bin_data_length,
           r.dat_null, r.dat_data, r.dat_data_length>>
    ELSE <<r.status, r.returncode>>

----------------------------------------------------------------------------
(* Claims about the .qst reader, checked under SpecRead.                   *)

\* C9: reader order-independence.  For the same header records and the
\* same chunk sequences of the two files, load_quest_from_qst gives the
\* same return code, buffers and lengths for every arrangement (headers
\* in either order before the chunks, the chunks of the two files
\* interleaved) as for the arrangement that has the bin header first and
\* the bin chunks before the dat chunks.
C9_OrderIndependent ==
    (mode = "read" /\ qstPc = "loaded" /\ qst \in Arrangements(canon))
        => Loaded(rd) = Loaded(RunLoad(LoadStart, Canonical(canon),
                                       heapFill, heapAdjacent))

\* C10: reader completeness.  load_quest_from_qst returns SUCCESS only
\* when it has read a .bin header and a .dat header and has copied into
\* each buffer exactly the number of bytes its header declared.
C10_SuccessIsComplete ==
    (mode = "read" /\ qstPc = "loaded" /\ rd.returncode = SUCCESS)
        => /\ ~rd.bin_null
           /\ ~rd.dat_null
           /\ rd.bin_data_pos = rd.bin_data_length
           /\ rd.dat_data_pos = rd.dat_data_length

\* C11: reader bounds.  load_quest_from_qst never copies chunk data to a
\* place outside the reassembly buffer of the chunk's file, and never
\* copies from behind the data of a chunk record: a chunk that would do
\* either is not copied.
C11_CopiesInBounds ==
    (mode = "read" /\ rd.status # "off")
        => /\ ~rd.overflow
           /\ rd.fault # "memcpy reads past data.data"

\* whether the filename of the chunk record F[i] is the filename of a
\* header record that comes before it in F
Announced(F, i) ==
    \E j \in 1..(i - 1) :
        /\ F[j].kind = "header"
        /\ strncmp_eq(Peek(F[j].raw, OffFilename, QUEST_FILENAME_MAX_LENGTH),
                      F[i].filename, QUEST_FILENAME_MAX_LENGTH)

\* C12: when the record load_quest_from_qst reads next is a whole chunk
\* record whose filename no header record before it has announced, the
\* iteration returns ERROR_BAD_DATA and leaves both buffers as they were.
C12_UnannouncedRejected ==
    [][(/\ mode = "read"
        /\ qstPc = "load"
        /\ rd.fpos < Len(qst)
        /\ qst[rd.fpos + 1].kind = "chunk"
        /\ qst[rd.fpos + 1].avail = SizeofQstDataChunk
        /\ ~Announced(qst, rd.fpos + 1))
          => (/\ rd'.status = "returned"
              /\ rd'.returncode = ERROR_BAD_DATA
              /\ rd'.bin_data = rd.bin_data
              /\ rd'.dat_data = rd.dat_data)]_vars

(***************************************************************************)
(* The validators of quests.c.                                             *)
(***************************************************************************)
QUESTBIN_ERROR_OBJECT_CODE_OFFSET == 1
QUESTBIN_ERROR_LARGER_BIN_SIZE == 2
QUESTBIN_ERROR_SMALLER_BIN_SIZE == 4
QUESTBIN_ERROR_NAME == 8
QUESTBIN_ERROR_EPISODE == 16

QUESTDAT_ERROR_TYPE == 1
QUESTDAT_ERROR_TABLE_BODY_SIZE == 2
QUESTDAT_ERROR_PREMATURE_EOF == 4

\* sizeof(QUEST_BIN_HEADER) and sizeof(QUEST_DAT_TABLE_HEADER)
SizeofQuestBinHeader == 468
SizeofQuestDatTableHeader == 16

\* the episode test of validate_quest_bin left out
validate_quest_bin_without_episode(header, length) ==
    (IF header.object_code_offset # 468
     THEN {QUESTBIN_ERROR_OBJECT_CODE_OFFSET} ELSE {})
    \cup (IF header.bin_size < length THEN {QUESTBIN_ERROR_SMALLER_BIN_SIZE}
          ELSE IF header.bin_size > length
               THEN {QUESTBIN_ERROR_LARGER_BIN_SIZE} ELSE {})
    \cup (IF strlen(header.name) = 0 THEN {QUESTBIN_ERROR_NAME} ELSE {})

\* validate_quest_bin(header, length, print_errors): result, the flags or'ed
\* into it
validate_quest_bin(header, length) ==
    (IF header.object_code_offset # 468
     THEN {QUESTBIN_ERROR_OBJECT_CODE_OFFSET} ELSE {})
    \cup (IF header.bin_size < length THEN {QUESTBIN_ERROR_SMALLER_BIN_SIZE}
          ELSE IF header.bin_size > length
               THEN {QUESTBIN_ERROR_LARGER_BIN_SIZE} ELSE {})
    \cup (IF strlen(header.name) = 0 THEN {QUESTBIN_ERROR_NAME} ELSE {})
    \cup (IF header.episode > 1 THEN {QUESTBIN_ERROR_EPISODE} ELSE {})

\* the all-zero table header
IsZeroTable(table_header) ==
    /\ table_header.type = 0
    /\ table_header.table_size = 0
    /\ table_header.area = 0
    /\ table_header.table_body_size = 0

\* table_size == (table_body_size - sizeof(QUEST_DAT_TABLE_HEADER)), the
\* right side computed in size_t: when table_body_size is below 16 it wraps
\* to a value above every table_size used here
TableSizeTest(table_header) ==
    /\ table_header.table_body_size >= SizeofQuestDatTableHeader
    /\ table_header.table_size
          = table_header.table_body_size - SizeofQuestDatTableHeader

\* the loop of validate_quest_dat going on after a zero table before the end
RECURSIVE validate_quest_dat_loop_without_break(_, _, _, _, _)
validate_quest_dat_loop_without_break(data, length, i, offset, result) ==
    IF ~(offset < length) \/ i > Len(data)
    THEN [result |-> result, offset |-> offset, zero_at |-> 0 - 1]
    ELSE LET table_header == data[i]
             r1 == IF table_header.type > 5
                   THEN result \cup {QUESTDAT_ERROR_TYPE} ELSE result
             r2 == IF IsZeroTable(table_header)
                   THEN IF offset + SizeofQuestDatTableHeader = length
                        THEN r1
                        ELSE r1 \cup {QUESTDAT_ERROR_PREMATURE_EOF}
                   ELSE IF TableSizeTest(table_header)
                        THEN r1 \cup {QUESTDAT_ERROR_TABLE_BODY_SIZE}
                        ELSE r1
         IN  validate_quest_dat_loop_without_break(data, length, i + 1,
                 offset + SizeofQuestDatTableHeader
                        + table_header.table_body_size, r2)

\* The loop of validate_quest_dat from table number i at offset, with the
\* flags gathered so far.  data is the sequence of the table headers that the
\* walk finds, the header at an offset below length being read whole even
\* when the buffer ends inside it.
RECURSIVE validate_quest_dat_loop(_, _, _, _, _)
validate_quest_dat_loop(data, length, i, offset, result) ==
    IF ~(offset < length) \/ i > Len(data)
    THEN [result |-> result, offset |-> offset, zero_at |-> 0 - 1]
    ELSE LET table_header == data[i]
             r1 == IF table_header.type > 5
                   THEN result \cup {QUESTDAT_ERROR_TYPE} ELSE result
             next == offset + SizeofQuestDatTableHeader
                            + table_header.table_body_size
         IN  IF IsZeroTable(table_header)
             THEN IF offset + SizeofQuestDatTableHeader = length
                  THEN validate_quest_dat_loop(data, length, i + 1, next, r1)
                  ELSE [result |-> r1 \cup {QUESTDAT_ERROR_PREMATURE_EOF},
                        offset |-> offset, zero_at |-> offset]
             ELSE IF TableSizeTest(table_header)
                  THEN validate_quest_dat_loop(data, length, i + 1, next,
                           r1 \cup {QUESTDAT_ERROR_TABLE_BODY_SIZE})
                  ELSE validate_quest_dat_loop(data, length, i + 1, next, r1)

\* validate_quest_dat(data, length, print_errors)
validate_quest_dat(data, length) ==
    validate_quest_dat_loop(data, length, 1, 0, {}).result

\* the flags of the later copy of validate_quest_dat that quests.h lacks
QUESTDAT_ERROR_EOF_EMPTY_TABLE == 8
QUESTDAT_ERROR_EMPTY_TABLE == 16

\* quest_number_word, which shares its two bytes with quest_number_byte and
\* episode
quest_number_word(header) ==
    header.quest_number_byte + 256 * header.episode

\* the later copy of validate_quest_bin, the one quest_info is built with
validate_quest_bin_later(header, length) ==
    (IF header.object_code_offset # 468
     THEN {QUESTBIN_ERROR_OBJECT_CODE_OFFSET} ELSE {})
    \cup (IF header.bin_size < length THEN {QUESTBIN_ERROR_SMALLER_BIN_SIZE}
          ELSE IF header.bin_size > length
               THEN {QUESTBIN_ERROR_LARGER_BIN_SIZE} ELSE {})
    \cup (IF strlen(header.name) = 0 THEN {QUESTBIN_ERROR_NAME} ELSE {})
    \cup (IF quest_number_word(header) = 0
          THEN {QUESTBIN_ERROR_NAME} ELSE {})

\* the loop of the later copy of validate_quest_dat: no break
RECURSIVE validate_quest_dat_later_loop(_, _, _, _, _)
validate_quest_dat_later_loop(data, length, i, offset, result) ==
    IF ~(offset < length) \/ i > Len(data)
    THEN result
    ELSE LET table_header == data[i]
             r1 == IF table_header.type > 5
                   THEN result \cup {QUESTDAT_ERROR_TYPE} ELSE result
             r2 == IF IsZeroTable(table_header)
                   THEN IF offset + SizeofQuestDatTableHeader = length
                        THEN r1 \cup {QUESTDAT_ERROR_EOF_EMPTY_TABLE}
                        ELSE r1 \cup {QUESTDAT_ERROR_EMPTY_TABLE}
                   ELSE IF TableSizeTest(table_header)
                        THEN r1 \cup {QUESTDAT_ERROR_TABLE_BODY_SIZE}
                        ELSE r1
         IN  validate_quest_dat_later_loop(data, length, i + 1,
                 offset + SizeofQuestDatTableHeader
                        + table_header.table_body_size, r2)

validate_quest_dat_later(data, length) ==
    validate_quest_dat_later_loop(data, length, 1, 0, {})

(***************************************************************************)
(* The recovery of quests.c.  realloc may hand back the block it was given *)
(* or a new one: moves says which.                                         *)
(***************************************************************************)
\* handle_quest_bin_validation_issues clearing the flags and never growing the
\* buffer
handle_quest_bin_validation_issues_without_realloc(bin_validation_result, header, decompressed_bin_data, decompressed_bin_length, moves) ==
    [result |-> bin_validation_result
                  \ {QUESTBIN_ERROR_SMALLER_BIN_SIZE,
                     QUESTBIN_ERROR_LARGER_BIN_SIZE,
                     QUESTBIN_ERROR_EPISODE},
     data |-> decompressed_bin_data,
     length |-> IF QUESTBIN_ERROR_SMALLER_BIN_SIZE \in bin_validation_result
                THEN header.bin_size ELSE decompressed_bin_length,
     moved |-> FALSE]

handle_quest_bin_validation_issues(bin_validation_result, header, decompressed_bin_data, decompressed_bin_length, moves) ==
    LET smaller == QUESTBIN_ERROR_SMALLER_BIN_SIZE \in bin_validation_result
        larger == QUESTBIN_ERROR_LARGER_BIN_SIZE \in bin_validation_result
        length1 == IF smaller THEN header.bin_size
                   ELSE decompressed_bin_length
        grows == larger /\ length1 + 1 = header.bin_size
    IN  [result |-> bin_validation_result
                      \ {QUESTBIN_ERROR_SMALLER_BIN_SIZE,
                         QUESTBIN_ERROR_LARGER_BIN_SIZE,
                         QUESTBIN_ERROR_EPISODE},
         data |-> IF grows
                  THEN [decompressed_bin_data EXCEPT
                            !.tail = Append(decompressed_bin_data.tail, 0)]
                  ELSE decompressed_bin_data,
         length |-> IF grows THEN length1 + 1 ELSE length1,
         moved |-> grows /\ moves]

handle_quest_dat_validation_issues(dat_validation_result, decompressed_dat_data, decompressed_dat_length) ==
    [result |-> dat_validation_result \ {QUESTDAT_ERROR_PREMATURE_EOF},
     data |-> decompressed_dat_data,
     length |-> decompressed_dat_length]

\* display_info: what it does about the result of validate_quest_bin
display_info_bin_issues(validation_result_, header, decompressed_bin_data, decompressed_bin_length, moves) ==
    LET grows == /\ validation_result_ = {QUESTBIN_ERROR_LARGER_BIN_SIZE}
                 /\ decompressed_bin_length + 1 = header.bin_size
    IN  [abort |-> /\ validation_result_ # {QUESTBIN_ERROR_SMALLER_BIN_SIZE}
                   /\ validation_result_ # {QUESTBIN_ERROR_LARGER_BIN_SIZE}
                   /\ validation_result_ # {},
         data |-> IF grows
                  THEN [decompressed_bin_data EXCEPT
                            !.tail = Append(decompressed_bin_data.tail, 0)]
                  ELSE decompressed_bin_data,
         length |-> IF validation_result_ = {QUESTBIN_ERROR_SMALLER_BIN_SIZE}
                    THEN header.bin_size
                    ELSE IF grows THEN decompressed_bin_length + 1
                    ELSE decompressed_bin_length,
         moved |-> grows /\ moves]

(***************************************************************************)
(* The decompressed buffers the tools are run on.                          *)
(***************************************************************************)
MaxBinSlack == 3
MaxTail == 1
MaxTables == 2
DatCut == 8

BinHeaders ==
    [object_code_offset : {468, 0},
     bin_size : {SizeofQuestBinHeader + k : k \in 0..MaxBinSlack},
     download : {0, 1},
     quest_number_byte : {0, 1},
     episode : {0, 1, 2},
     name : {<<0, 0>>, <<81, 0>>}]

BinInputs ==
    [hdr : BinHeaders, tail : UNION {[1..n -> {7}] : n \in 0..MaxTail}]

BinLength(block) == SizeofQuestBinHeader + Len(block.tail)

ZeroTable == [type |-> 0, table_size |-> 0, area |-> 0, table_body_size |-> 0]

DatTables ==
    { ZeroTable,
      [type |-> 1, table_size |-> 20, area |-> 0, table_body_size |-> 4],
      [type |-> 1, table_size |-> 4, area |-> 0, table_body_size |-> 20],
      [type |-> 6, table_size |-> 0, area |-> 1, table_body_size |-> 0] }

RECURSIVE DatTotal(_)
DatTotal(tables) ==
    IF tables = <<>> THEN 0
    ELSE SizeofQuestDatTableHeader + Head(tables).table_body_size
            + DatTotal(Tail(tables))

\* a decompressed .dat buffer: its tables, and its length, which is the end
\* of the last table or DatCut bytes before it
DatInputs ==
    UNION {{[tables |-> t, length |-> l] :
                l \in {DatTotal(t), DatTotal(t) - DatCut}} :
           t \in UNION {[1..n -> DatTables] : n \in 1..MaxTables}}

Tools == {"bindat_to_gcdl", "gci_extract", "quest_info"}

(***************************************************************************)
(* The mains of bindat_to_gcdl, gci_extract and quest_info from the        *)
(* decompression of the .bin data on.                                      *)
(***************************************************************************)
\* fuzziqer_prs_decompress_buf of the .bin data and the cast to bin_header
main_decompress_bin ==
    /\ mode = "validate"
    /\ toolPc = "start"
    /\ \E block \in BinInputs :
          /\ decompressed_bin' = block
          /\ decompressed_bin_size' = BinLength(block)
    /\ bin_header' = "decompressed_bin"
    /\ toolPc' = "bin"
    /\ UNCHANGED <<mode, prsVars, qstVars, datWalk, tool, decompressed_dat,
                   decompressed_dat_size, validation_result, validated,
                   main_returncode, output>>

\* validate_quest_bin, the recovery and the test of what remains
main_validate_bin ==
    /\ mode = "validate"
    /\ toolPc = "bin"
    /\ \E moves \in BOOLEAN :
          LET header == decompressed_bin.hdr
              first == IF tool = "quest_info"
                       THEN validate_quest_bin_later(header,
                                decompressed_bin_size)
                       ELSE validate_quest_bin(header, decompressed_bin_size)
              h == handle_quest_bin_validation_issues(first, header,
                       decompressed_bin, decompressed_bin_size, moves)
              d == display_info_bin_issues(first, header, decompressed_bin,
                       decompressed_bin_size, moves)
              left == IF tool = "quest_info" THEN first ELSE h.result
              abort == IF tool = "quest_info" THEN d.abort ELSE left # {}
              after == IF tool = "quest_info" THEN d ELSE h
          IN  /\ validation_result' = left
              /\ decompressed_bin' = after.data
              /\ decompressed_bin_size' = after.length
              /\ bin_header' = IF after.moved THEN "freed" ELSE bin_header
              /\ validated' = [validated EXCEPT
                                  !.bin = first,
                                  !.bin_length = decompressed_bin_size,
                                  !.bin_block = decompressed_bin,
                                  !.handled_bin = left,
                                  !.aborted = abort]
              /\ toolPc' = IF abort THEN "error" ELSE "bin_done"
    /\ UNCHANGED <<mode, prsVars, qstVars, datWalk, tool, decompressed_dat,
                   decompressed_dat_size, main_returncode, output>>

\* the decompression of the .dat data
main_decompress_dat ==
    /\ mode = "validate"
    /\ toolPc = "bin_done"
    /\ \E d \in DatInputs :
          /\ decompressed_dat' = d.tables
          /\ decompressed_dat_size' = d.length
    /\ toolPc' = "dat"
    /\ UNCHANGED <<mode, prsVars, qstVars, datWalk, tool, bin_header, decompressed_bin,
                   decompressed_bin_size, validation_result, validated,
                   main_returncode, output>>

\* validate_quest_dat, the recovery where the tool has one, and the test of
\* what remains
main_validate_dat ==
    /\ mode = "validate"
    /\ toolPc = "dat"
    /\ LET first == IF tool = "quest_info"
                    THEN validate_quest_dat_later(decompressed_dat,
                             decompressed_dat_size)
                    ELSE validate_quest_dat(decompressed_dat,
                             decompressed_dat_size)
           h == handle_quest_dat_validation_issues(first, decompressed_dat,
                    decompressed_dat_size)
           left == IF tool = "bindat_to_gcdl" THEN h.result ELSE first
           abort == IF tool = "quest_info"
                    THEN first # {QUESTDAT_ERROR_EOF_EMPTY_TABLE}
                    ELSE left # {}
       IN  /\ validation_result' = left
           /\ decompressed_dat' =
                 IF tool = "bindat_to_gcdl" THEN h.data ELSE decompressed_dat
           /\ decompressed_dat_size' =
                 IF tool = "bindat_to_gcdl" THEN h.length
                 ELSE decompressed_dat_size
           /\ validated' = [validated EXCEPT
                               !.dat = first,
                               !.dat_length = decompressed_dat_size,
                               !.handled_dat = left,
                               !.aborted = abort]
           /\ toolPc' = IF abort THEN "error" ELSE "dat_done"
    /\ UNCHANGED <<mode, prsVars, qstVars, datWalk, tool, bin_header, decompressed_bin,
                   decompressed_bin_size, main_returncode, output>>

\* bin_header->download = 1 (bindat_to_gcdl) or 0 (gci_extract), then
\* fuzziqer_prs_compress(decompressed_bin, ..., decompressed_bin_size).  The
\* store goes through bin_header: when realloc has moved the data it lands
\* in the freed block and the block that is compressed keeps its byte.
main_set_download ==
    /\ mode = "validate"
    /\ toolPc = "dat_done"
    /\ tool \in {"bindat_to_gcdl", "gci_extract"}
    /\ LET flag == IF tool = "bindat_to_gcdl" THEN 1 ELSE 0
           block == IF bin_header = "decompressed_bin"
                    THEN [decompressed_bin EXCEPT !.hdr.download = flag]
                    ELSE decompressed_bin
       IN  /\ decompressed_bin' = block
           /\ output' = [written |-> FALSE, image |-> block,
                         size |-> decompressed_bin_size]
    /\ toolPc' = "compressed"
    /\ UNCHANGED <<mode, prsVars, qstVars, datWalk, tool, bin_header,
                   decompressed_bin_size, decompressed_dat,
                   decompressed_dat_size, validation_result, validated,
                   main_returncode>>

\* The end of main.  bindat_to_gcdl and gci_extract write their output,
\* which may fail, and return 0, or come from a goto error and return 1;
\* display_info returns nothing and the main of quest_info returns 0 after it.
main_quit ==
    /\ mode = "validate"
    /\ \/ /\ toolPc = "compressed"
          /\ \E written \in BOOLEAN :
                /\ output' = [output EXCEPT !.written = written]
                /\ main_returncode' = IF written THEN 0 ELSE 1
       \/ /\ toolPc = "error"
          /\ main_returncode' = IF tool = "quest_info" THEN 0 ELSE 1
          /\ UNCHANGED output
       \/ /\ toolPc = "dat_done"
          /\ tool = "quest_info"
          /\ main_returncode' = 0
          /\ UNCHANGED output
    /\ toolPc' = "exit"
    /\ UNCHANGED <<mode, prsVars, qstVars, datWalk, tool, bin_header, decompressed_bin,
                   decompressed_bin_size, decompressed_dat,
                   decompressed_dat_size, validation_result, validated>>

InitVal ==
    /\ mode = "validate"
    /\ PrsIdle
    /\ QstIdle
    /\ heapFill = 0
    /\ tool \in Tools
    /\ toolPc = "start"
    /\ bin_header = "null"
    /\ decompressed_bin = NoBin
    /\ decompressed_bin_size = 0
    /\ decompressed_dat = <<>>
    /\ decompressed_dat_size = 0
    /\ validation_result = {}
    /\ validated = NoValidated
    /\ main_returncode = 0 - 1
    /\ output = NoOutput
    /\ datWalk = NoWalk

NextVal ==
    \/ main_decompress_bin
    \/ main_validate_bin
    \/ main_decompress_dat
    \/ main_validate_dat
    \/ main_set_download
    \/ main_quit

SpecVal == InitVal /\ [][NextVal]_vars

(***************************************************************************)
(* The claims about the validators and the tools.                          *)
(***************************************************************************)
\* the tool has run validate_quest_bin of quests.c lines 43-73
BinValidated ==
    /\ mode = "validate"
    /\ toolPc \notin {"start", "bin"}
    /\ tool # "quest_info"

DatValidated ==
    /\ mode = "validate"
    /\ toolPc \in {"dat_done", "compressed", "error", "exit"}
    /\ decompressed_dat # <<>>

\* The tables that the walk of validate_quest_dat visits from table number i
\* at offset: every table that starts below length, up to and including a
\* zero table before the end where the walk breaks off (breaks says whether
\* it does: the later copy goes on).
RECURSIVE Visited(_, _, _, _, _)
Visited(data, length, i, offset, breaks) ==
    IF ~(offset < length) \/ i > Len(data) THEN {}
    ELSE IF /\ breaks
            /\ IsZeroTable(data[i])
            /\ offset + SizeofQuestDatTableHeader # length
         THEN {i}
         ELSE {i} \cup Visited(data, length, i + 1,
                               offset + SizeofQuestDatTableHeader
                                      + data[i].table_body_size, breaks)

\* C14: validate_quest_dat sets the table-body-size-mismatch flag if and only
\* if some table header that the walk visits, the all-zero one apart, has
\* table_size + 16 # table_body_size.
C14_MismatchFlagExact ==
    DatValidated =>
        (QUESTDAT_ERROR_TABLE_BODY_SIZE \in validated.dat
            <=> \E i \in Visited(decompressed_dat, validated.dat_length, 1, 0,
                                 tool # "quest_info") :
                   /\ ~IsZeroTable(decompressed_dat[i])
                   /\ decompressed_dat[i].table_size
                         + SizeofQuestDatTableHeader
                         # decompressed_dat[i].table_body_size)

\* handle_quest_bin_validation_issues has returned and the .bin buffer has
\* not been written since
BinHandled ==
    /\ BinValidated
    /\ toolPc \in {"bin_done", "dat", "dat_done", "error"}

\* C15: on LARGER_BIN_SIZE, handle_quest_bin_validation_issues clears the
\* flag only when the length is bin_size - 1, and then appends one zero byte
\* and makes the length bin_size; when bin_size is larger by 2 or more the
\* flag stays in the returned result and buffer and length are unchanged.
C15_LargerRecovery ==
    (BinHandled /\ QUESTBIN_ERROR_LARGER_BIN_SIZE \in validated.bin) =>
        IF validated.bin_length + 1 = validated.bin_block.hdr.bin_size
        THEN /\ QUESTBIN_ERROR_LARGER_BIN_SIZE \notin validated.handled_bin
             /\ decompressed_bin.hdr = validated.bin_block.hdr
             /\ decompressed_bin.tail = Append(validated.bin_block.tail, 0)
             /\ decompressed_bin_size = validated.bin_block.hdr.bin_size
        ELSE /\ QUESTBIN_ERROR_LARGER_BIN_SIZE \in validated.handled_bin
             /\ decompressed_bin = validated.bin_block
             /\ decompressed_bin_size = validated.bin_length

\* C16: validating again what handle_quest_bin_validation_issues (resp.
\* handle_quest_dat_validation_issues) has left yields flags that are among
\* the original ones and include none of those the handler cleared from its
\* result.
C16_RecoveryConverges ==
    /\ BinHandled =>
          LET again == validate_quest_bin(decompressed_bin.hdr,
                                          decompressed_bin_size)
          IN  /\ again \subseteq validated.bin
              /\ again \cap (validated.bin \ validated.handled_bin) = {}
    /\ (DatValidated /\ tool = "bindat_to_gcdl") =>
          LET again == validate_quest_dat(decompressed_dat,
                                          decompressed_dat_size)
          IN  /\ again \subseteq validated.dat
              /\ again \cap (validated.dat \ validated.handled_dat) = {}

\* C17: when validate_quest_dat reports an all-zero table header before the
\* end of the buffer, handle_quest_dat_validation_issues shortens the
\* decompressed .dat length to the end of that header (its offset + 16).
C17_MidFileZeroTruncates ==
    LET walk == validate_quest_dat_loop(decompressed_dat,
                                        validated.dat_length, 1, 0, {})
    IN  (/\ DatValidated
         /\ tool = "bindat_to_gcdl"
         /\ QUESTDAT_ERROR_PREMATURE_EOF \in validated.dat
         /\ walk.zero_at + SizeofQuestDatTableHeader < validated.dat_length)
            => /\ QUESTDAT_ERROR_PREMATURE_EOF \notin validated.handled_dat
               /\ decompressed_dat_size
                     = walk.zero_at + SizeofQuestDatTableHeader

\* C18: in every successful run, the decompressed .bin image that
\* bindat_to_gcdl compresses has download = 1 and the one that gci_extract
\* compresses has download = 0.
C18_DownloadFlagByTarget ==
    (mode = "validate" /\ toolPc = "exit" /\ main_returncode = 0) =>
        /\ tool = "bindat_to_gcdl" => output.image.hdr.download = 1
        /\ tool = "gci_extract" => output.image.hdr.download = 0

\* C19: a tool run that has printed "Aborting due to invalid quest .bin
\* data" or "... .dat data", validation having left a flag that recovery did
\* not clear, ends with a non-zero exit code and has written no output.
C19_AbortExitsNonZero ==
    (mode = "validate" /\ toolPc = "exit" /\ validated.aborted) =>
        /\ main_returncode # 0
        /\ ~output.written

\* the number of chunks that a file of size bytes is cut into
ChunkCount(size) == (size + DataSize - 1) \div DataSize

\* the records of the file F after its two header records
ChunkPart(F) == SubSeq(F, 3, Len(F))

\* C20: the .qst that bindat_to_gcdl writes is header(bin), header(dat),
\* then chunks that alternate bin, dat, bin, dat, ... starting with bin for
\* as long as both files have bytes left, then the chunks of the file that
\* has bytes left, alone; the loop ends exactly when both are exhausted.
C20_WriterRecordOrder ==
    (mode = "qst" /\ qstPc \in {"chunks", "written"}) =>
        LET nb == ChunkCount(Len(final.final_bin))
            nd == ChunkCount(Len(final.final_dat))
            both == 2 * Min(nb, nd)
            cs == ChunkPart(qst)
        IN  /\ qst[1] = [kind |-> "header", raw |-> final.qst_bin_header.raw,
                         avail |-> SizeofQstHeader]
            /\ qst[2] = [kind |-> "header", raw |-> final.qst_dat_header.raw,
                         avail |-> SizeofQstHeader]
            /\ \A k \in 1..Len(cs) :
                  /\ cs[k].kind = "chunk"
                  /\ cs[k].of = IF k <= both
                                THEN (IF k % 2 = 1 THEN "bin" ELSE "dat")
                                ELSE (IF nb > nd THEN "bin" ELSE "dat")
            /\ Len(cs) <= nb + nd
            /\ (w.bin_done # 0 /\ w.dat_done # 0) <=> Len(cs) = nb + nd
            /\ qstPc = "written" => Len(cs) = nb + nd

\* C20, its cases: a written file where the two files alternate for two
\* rounds or more and the longer one then goes on alone for two chunks or
\* more
C20_AlternateThenAlone ==
    /\ mode = "qst"
    /\ qstPc = "written"
    /\ LET cs == ChunkPart(qst)
           n == Len(cs)
       IN  /\ n >= 6
           /\ cs[1].of = "bin" /\ cs[2].of = "dat"
           /\ cs[3].of = "bin" /\ cs[4].of = "dat"
           /\ cs[n].of = cs[n - 1].of

(***************************************************************************)
(* Further claims about the .qst writer, checked under SpecQst.  The data  *)
(* capacity of a chunk record, 1024 bytes in quests.h, is DataSize here,   *)
(* and a record size is stated as what it adds to that capacity.           *)
(***************************************************************************)
\* The chunk records of each file in the written .qst: their number, their
\* size fields, the zero bytes after the used ones, and a record size of
\* overhead bytes more than the data capacity.
ChunkSizing(overhead) ==
    (mode = "qst" /\ qstPc = "written") =>
        \A f \in {"bin", "dat"} :
            LET S == IF f = "bin" THEN Len(final.final_bin)
                     ELSE Len(final.final_dat)
                cs == ChunksOf(qst, f)
                n == ChunkCount(S)
            IN  /\ S >= 1
                /\ Len(cs) = n
                /\ \A k \in 1..Len(cs) :
                      /\ cs[k].size = IF k < n THEN DataSize
                                      ELSE S - DataSize * (n - 1)
                      /\ cs[k].size \in 1..DataSize
                      /\ \A i \in (cs[k].size + 1)..DataSize :
                            cs[k].data[i] = 0
                      /\ Len(cs[k].data) = DataSize
                      /\ cs[k].pkt_size = DataSize + overhead
                      /\ cs[k].avail = DataSize + overhead

C22_HeaderFields ==
    (mode = "qst" /\ final # NoFinal) =>
        /\ fault = "none"
        /\ \A f \in {"bin", "dat"} :
              LET h == IF f = "bin" THEN final.qst_bin_header
                       ELSE final.qst_dat_header
                  S == IF f = "bin" THEN Len(final.final_bin)
                       ELSE Len(final.final_dat)
              IN  /\ ~h.smash
                  /\ Len(h.raw) = SizeofQstHeader
                  /\ Peek(h.raw, 1, 1) = <<0>>
                  /\ FromLE(Peek(h.raw, 2, 2)) = SizeofQstHeader
                  /\ Peek(h.raw, OffName + SizeofName, 4) = <<0, 0, 0, 0>>
                  /\ FromLE(Peek(h.raw, OffSize, 4)) = S

\* C23: in the payload that bindat_to_gcdl frames for each file, bytes 0..3
\* hold decompressed_size + 8 and bytes 4..7 the crypt key, both in clear;
\* the bytes from offset 8 on are the compressed data encrypted with the
\* cipher seeded by that stored key, so decrypt_qst_bindat, which takes the
\* key from the wrapper, gives back the compressed data.
C23_DownloadWrapper ==
    (mode = "qst" /\ qstPc = "open") =>
        \A f \in {"bin", "dat"} :
            LET data == IF f = "bin" THEN final.final_bin
                        ELSE final.final_dat
                size == IF f = "bin" THEN inp.decompressed_bin_size
                        ELSE inp.decompressed_dat_size
                key == IF f = "bin" THEN inp.bin_key ELSE inp.dat_key
                compressed == IF f = "bin" THEN inp.compressed_bin
                              ELSE inp.compressed_dat
                stored == CRYPT_CreateKeys(Peek(data, 4, 4))
                back == DecryptOne(data, Len(data))
            IN  /\ Len(data) = SizeofDlHeader + Len(compressed)
                /\ FromLE(Peek(data, 0, 4)) = size + 8
                /\ Peek(data, 4, 4) = LE(key, 4)
                /\ Peek(data, SizeofDlHeader, Len(compressed))
                      = CRYPT_CryptData(stored, compressed)
                /\ back.length = Len(compressed)
                /\ Peek(back.data, 0, back.length) = compressed

\* C23, its case: a payload that the cipher has changed, under a key that
\* is not 0, lies behind the wrapper
C23_Encrypted ==
    /\ mode = "qst"
    /\ qstPc = "open"
    /\ inp.dat_key # 0
    /\ Len(inp.compressed_dat) > 4
    /\ \A i \in 1..4 :
          final.final_dat[SizeofDlHeader + i] # inp.compressed_dat[i]

\* C24: the byte count that the offline writer passes to the stream cipher,
\* final_size - 8, is a positive multiple of 4, the compressed payload being
\* padded with zeros up to it, and the size field of the QST header record
\* is 8 + that padded length.
C24_CipherAlignment ==
    (mode = "qst" /\ qstPc = "open") =>
        \A f \in {"bin", "dat"} :
            LET data == IF f = "bin" THEN final.final_bin
                        ELSE final.final_dat
                compressed == IF f = "bin" THEN inp.compressed_bin
                              ELSE inp.compressed_dat
                h == IF f = "bin" THEN final.qst_bin_header
                     ELSE final.qst_dat_header
                passed == Len(data) - SizeofDlHeader
            IN  /\ passed > 0
                /\ passed % 4 = 0
                /\ passed >= Len(compressed)
                /\ passed < Len(compressed) + 4
                /\ ~h.smash => FromLE(Peek(h.raw, OffSize, 4))
                                  = SizeofDlHeader + passed

(***************************************************************************)
(* The compressor alone, on sources long enough for every kind of          *)
(* back-reference: short, long in two bytes, long in three bytes, and long *)
(* because of its distance.                                                *)
(***************************************************************************)
\* the distance of the far matches, and the lengths of the near ones
FarBlock == 256
NearBlock == 8
LongBlock == 12

\* the bytes 0, 1, 2, ... of a block of n bytes
Ramp(n) == [i \in 1..n |-> (i - 1) % 256]

\* A source is one byte, a block, and the block or its first bytes again:
\* the search never looks at index 0, so the block starts at index 1.
TokenSources ==
    { <<88>> \o Ramp(3) \o Ramp(3) \o <<89>>,
      <<88>> \o Ramp(NearBlock) \o Ramp(NearBlock) \o <<89>>,
      <<88>> \o Ramp(LongBlock) \o Ramp(LongBlock) \o <<89>>,
      <<88>> \o Ramp(FarBlock) \o Ramp(3) \o <<200>>,
      <<88>> \o Ramp(FarBlock) \o Ramp(FarBlock) \o <<89>> }

InitTok ==
    /\ mode = "tokens"
    /\ QstIdle
    /\ ToolIdle
    /\ prsPc = "start"
    /\ src \in TokenSources
    /\ srcTail \in {<<0, 0, 0>>, <<3, 4, 5>>}
    /\ heapFill \in HeapBytes
    /\ pc = NoComp
    /\ x = 0
    /\ maxSrcRead = -1
    /\ stream = <<>>
    /\ sz = NoSz
    /\ dst_len = 0
    /\ dec = NoDec
    /\ fault = "none"

NextTok ==
    \/ fuzziqer_prs_compress_begin
    \/ prs_compress_iter
    \/ prs_compress_end

SpecTok == InitTok /\ [][NextTok]_vars

\* the data bytes one pass of prs_compress has appended: the bytes after the
\* old end of the output, less the control byte reserved during the pass
DataBytes(old, new) ==
    LET idx == {i \in (Len(old.dst) + 1)..Len(new.dst) :
                   i # new.controlbyteptr + 1}
        F[S \in SUBSET idx] ==
            IF S = {} THEN <<>>
            ELSE LET i == CHOOSE j \in S : \A k \in S : j <= k
                 IN  <<new.dst[i]>> \o F[S \ {i}]
    IN  F[idx]

\* what prs_decompress reads from the bytes of a long copy
LongOffset(d) == ((d[2] * 256 + d[1]) \div 8) - 8192
LongSize(d) == IF d[1] % 8 # 0 THEN (d[1] % 8) + 2 ELSE d[3] + 1

OffsetOf(data, i) == DatTotal(SubSeq(data, 1, i - 1))

\* the flags that the header of table number i alone raises in the walk, in
\* the copy of validate_quest_dat that the tool is built with
FlagsOfHeader(data, length, i) ==
    IF tool = "quest_info"
    THEN validate_quest_dat_later_loop(SubSeq(data, 1, i), length, i,
                                       OffsetOf(data, i), {})
    ELSE validate_quest_dat_loop(SubSeq(data, 1, i), length, i,
                                 OffsetOf(data, i), {}).result

\* the flag of an all-zero header before the end, in the tool's copy
MidFileFlag ==
    IF tool = "quest_info" THEN QUESTDAT_ERROR_EMPTY_TABLE
    ELSE QUESTDAT_ERROR_PREMATURE_EOF

\* C26: of the table headers that validate_quest_dat visits, an all-zero one
\* with offset + 16 = length raises no error flag (in the later copy only the
\* informational end-of-file flag), an all-zero one at any other offset raises
\* the premature-EOF flag (the empty-table flag in the later copy), so that
\* the flag is in the result exactly when such a header is visited; and in the
\* copy that breaks on it the walk stops at that header: the result is the
\* one of the buffer's tables up to it, whatever tables follow.
C26_SentinelHandling ==
    DatValidated =>
        LET data   == decompressed_dat
            length == validated.dat_length
            seen   == Visited(data, length, 1, 0, tool # "quest_info")
            mid    == {i \in seen : /\ IsZeroTable(data[i])
                                    /\ OffsetOf(data, i)
                                          + SizeofQuestDatTableHeader # length}
        IN  /\ \A i \in seen :
                  IsZeroTable(data[i]) =>
                      IF i \in mid
                      THEN MidFileFlag \in FlagsOfHeader(data, length, i)
                      ELSE FlagsOfHeader(data, length, i)
                              \subseteq {QUESTDAT_ERROR_EOF_EMPTY_TABLE}
            /\ MidFileFlag \in validated.dat <=> mid # {}
            /\ tool # "quest_info" =>
                  \A i \in mid :
                      LET walk == validate_quest_dat_loop(data, length, 1, 0, {})
                      IN  /\ walk.zero_at = OffsetOf(data, i)
                          /\ walk.offset = OffsetOf(data, i)
                          /\ validated.dat
                                = validate_quest_dat(SubSeq(data, 1, i), length)

\* C26 witness: the walk has met an all-zero header at offset 0 of a buffer
\* of 32 bytes and has not looked at the table of type 6 behind it
C26_BreakBeforeBadType ==
    /\ DatValidated
    /\ tool = "bindat_to_gcdl"
    /\ Len(decompressed_dat) = 2
    /\ IsZeroTable(decompressed_dat[1])
    /\ decompressed_dat[2].type > 5
    /\ validated.dat_length = 2 * SizeofQuestDatTableHeader
    /\ validated.dat = {QUESTDAT_ERROR_PREMATURE_EOF}

\* (I4) for a buffer of length bytes holding the tables of data: the walk
\* from offset 0 ends exactly at length, every header it reads lies inside
\* the buffer, and the last header it reads is all-zero
I4(data, length) ==
    LET seen == Visited(data, length, 1, 0, TRUE)
        walk == validate_quest_dat_loop(data, length, 1, 0, {})
    IN  /\ seen # {}
        /\ walk.offset = length
        /\ \A i \in seen :
              OffsetOf(data, i) + SizeofQuestDatTableHeader <= length
        /\ \E i \in seen : /\ \A j \in seen : j <= i
                           /\ IsZeroTable(data[i])

\* C27: every .dat buffer for which validate_quest_dat (the copy of
\* bindat_to_gcdl and gci_extract) reports no flag satisfies I4.
C27_NoFlagsImpliesI4 ==
    (DatValidated /\ tool # "quest_info" /\ validated.dat = {}) =>
        I4(decompressed_dat, validated.dat_length)

\* For a decompressed .bin whose header has bin_size = length + d:
\* validate_quest_bin returns LARGER_BIN_SIZE (and not SMALLER_BIN_SIZE),
\* handle_quest_bin_validation_issues appends one zero byte and makes the
\* length length + 1, and validate_quest_bin on the result returns the flags
\* of the first validation less LARGER_BIN_SIZE: none, when the size was the
\* header's only issue.
OffByOneRecovery(d) ==
    (BinHandled /\ validated.bin_block.hdr.bin_size = validated.bin_length + d)
        => /\ QUESTBIN_ERROR_LARGER_BIN_SIZE \in validated.bin
           /\ QUESTBIN_ERROR_SMALLER_BIN_SIZE \notin validated.bin
           /\ decompressed_bin
                 = [validated.bin_block EXCEPT
                        !.tail = Append(validated.bin_block.tail, 0)]
           /\ decompressed_bin_size = validated.bin_length + 1
           /\ validate_quest_bin(decompressed_bin.hdr, decompressed_bin_size)
                 = validated.bin \ {QUESTBIN_ERROR_LARGER_BIN_SIZE}

\* C28 as stated: the recovery by one zero byte happens for a header with
\* bin_size = length - 1.
C28_DeclaredOneLess == OffByOneRecovery(0 - 1)

\* C28: the recovery by one zero byte happens for a header with
\* bin_size = length + 1, the declared size being the larger one.
C28_DeclaredOneMore == OffByOneRecovery(1)

\* C28 witness: a .bin with bin_size = length + 1 and no other issue has been
\* validated (LARGER_BIN_SIZE alone), has been grown by a zero byte, and
\* validates without flags
C28_GrownAndClean ==
    /\ BinHandled
    /\ validated.bin_block.hdr.bin_size = validated.bin_length + 1
    /\ validated.bin = {QUESTBIN_ERROR_LARGER_BIN_SIZE}
    /\ Len(decompressed_bin.tail) = Len(validated.bin_block.tail) + 1
    /\ decompressed_bin.tail[Len(decompressed_bin.tail)] = 0
    /\ validate_quest_bin(decompressed_bin.hdr, decompressed_bin_size) = {}

(***************************************************************************)
(* The walks over the table headers of a decompressed .dat, one pass of    *)
(* the loop at a time, with offset and the header fields in 32 bits: the   *)
(* loop of validate_quest_dat (both copies) and the loop of display_info.  *)
(* The buffer is a sequence of slots of 16 bytes, each read as a table     *)
(* header when the walk lands on it; all body sizes are multiples of 16.   *)
(***************************************************************************)
Half == 65536

\* a + b in uint32_t
Add32(a, b) ==
    LET lo == a.lo + b.lo
        hi == a.hi + b.hi + (lo \div Half)
    IN  U32(hi % Half, lo % Half)

Less32(a, b) == a.hi < b.hi \/ (a.hi = b.hi /\ a.lo < b.lo)

\* most slots of a buffer, and the value up to which table_index is counted
\* (it is only printed)
MaxSlots == 3
MaxTableIndex == 4

SizeofHeader32 == U32(0, SizeofQuestDatTableHeader)

\* 0xFFFFFFF0
NearWrap == U32(Half - 1, Half - 16)

WalkHeaders ==
    { [type |-> 0, table_size |-> U32(0, 0), area |-> 0,
       table_body_size |-> U32(0, 0)],
      [type |-> 1, table_size |-> U32(0, 32), area |-> 0,
       table_body_size |-> U32(0, 16)],
      [type |-> 6, table_size |-> U32(0, 0), area |-> 1,
       table_body_size |-> U32(0, 0)],
      [type |-> 1, table_size |-> U32(0, 16), area |-> 0,
       table_body_size |-> NearWrap] }

WalkInputs == UNION {[1..n -> WalkHeaders] : n \in 1..MaxSlots}

\* the header at data + offset, for an offset below the length
HeaderAt(data, offset) == data[(offset.lo \div SizeofQuestDatTableHeader) + 1]

IsZeroTable32(table_header) ==
    /\ table_header.type = 0
    /\ table_header.table_size = U32(0, 0)
    /\ table_header.area = 0
    /\ table_header.table_body_size = U32(0, 0)

\* table_header->table_size == (table_header->table_body_size - 16), the
\* right side in size_t
TableSizeTest32(table_header) ==
    /\ ~Less32(table_header.table_body_size, SizeofHeader32)
    /\ Add32(table_header.table_size, SizeofHeader32)
          = table_header.table_body_size

\* offset += sizeof(QUEST_DAT_TABLE_HEADER); offset += table_body_size;
\* ++table_index
NextTable(table_header) ==
    [offset |-> Add32(Add32(datWalk.offset, SizeofHeader32),
                      table_header.table_body_size),
     table_index |-> Min(datWalk.table_index + 1, MaxTableIndex)]

\* where the main goes once validate_quest_dat has returned: quest_info
\* goes on to the loop of display_info when the result is the end-of-file
\* flag alone
AfterValidation(result) ==
    IF tool = "quest_info" /\ result = {QUESTDAT_ERROR_EOF_EMPTY_TABLE}
    THEN "display" ELSE "returned"

\* one pass of the while loop of validate_quest_dat
validate_quest_dat_pass ==
    /\ mode = "walk"
    /\ toolPc = "walk"
    /\ Less32(datWalk.offset, decompressed_dat_size)
    /\ LET table_header == HeaderAt(decompressed_dat, datWalk.offset)
           atEnd == Add32(datWalk.offset, SizeofHeader32)
                       = decompressed_dat_size
           r1 == IF table_header.type > 5
                 THEN validation_result \cup {QUESTDAT_ERROR_TYPE}
                 ELSE validation_result
           r2 == IF IsZeroTable32(table_header)
                 THEN IF tool = "quest_info"
                      THEN r1 \cup {IF atEnd
                                    THEN QUESTDAT_ERROR_EOF_EMPTY_TABLE
                                    ELSE QUESTDAT_ERROR_EMPTY_TABLE}
                      ELSE IF atEnd THEN r1
                           ELSE r1 \cup {QUESTDAT_ERROR_PREMATURE_EOF}
                 ELSE IF TableSizeTest32(table_header)
                      THEN r1 \cup {QUESTDAT_ERROR_TABLE_BODY_SIZE}
                      ELSE r1
           breaks == /\ tool # "quest_info"
                     /\ IsZeroTable32(table_header)
                     /\ ~atEnd
       IN  /\ validation_result' = r2
           /\ datWalk' = IF breaks THEN datWalk ELSE NextTable(table_header)
           /\ toolPc' = IF breaks THEN AfterValidation(r2) ELSE "walk"
    /\ UNCHANGED <<mode, prsVars, qstVars, tool, bin_header, decompressed_bin,
                   decompressed_bin_size, decompressed_dat,
                   decompressed_dat_size, validated, main_returncode, output>>

\* the while test of validate_quest_dat fails: return result
validate_quest_dat_return ==
    /\ mode = "walk"
    /\ toolPc = "walk"
    /\ ~Less32(datWalk.offset, decompressed_dat_size)
    /\ toolPc' = AfterValidation(validation_result)
    /\ datWalk' = IF AfterValidation(validation_result) = "display"
                  THEN NoWalk ELSE datWalk
    /\ UNCHANGED <<mode, prsVars, qstVars, tool, bin_header, decompressed_bin,
                   decompressed_bin_size, decompressed_dat,
                   decompressed_dat_size, validation_result, validated,
                   main_returncode, output>>

\* one pass of the while loop of display_info
display_info_pass ==
    /\ mode = "walk"
    /\ toolPc = "display"
    /\ Less32(datWalk.offset, decompressed_dat_size)
    /\ datWalk' = NextTable(HeaderAt(decompressed_dat, datWalk.offset))
    /\ UNCHANGED <<mode, prsVars, qstVars, tool, toolPc, bin_header,
                   decompressed_bin, decompressed_bin_size, decompressed_dat,
                   decompressed_dat_size, validation_result, validated,
                   main_returncode, output>>

\* the while test of display_info fails
display_info_done ==
    /\ mode = "walk"
    /\ toolPc = "display"
    /\ ~Less32(datWalk.offset, decompressed_dat_size)
    /\ toolPc' = "returned"
    /\ UNCHANGED <<mode, prsVars, qstVars, datWalk, tool, bin_header,
                   decompressed_bin, decompressed_bin_size, decompressed_dat,
                   decompressed_dat_size, validation_result, validated,
                   main_returncode, output>>

InitWalk ==
    /\ mode = "walk"
    /\ PrsIdle
    /\ QstIdle
    /\ heapFill = 0
    /\ tool \in Tools
    /\ toolPc = "walk"
    /\ bin_header = "null"
    /\ decompressed_bin = NoBin
    /\ decompressed_bin_size = 0
    /\ decompressed_dat \in WalkInputs
    /\ decompressed_dat_size
          = U32(0, SizeofQuestDatTableHeader * Len(decompressed_dat))
    /\ validation_result = {}
    /\ validated = NoValidated
    /\ main_returncode = 0 - 1
    /\ output = NoOutput
    /\ datWalk = NoWalk

NextWalk ==
    \/ validate_quest_dat_pass
    \/ validate_quest_dat_return
    \/ display_info_pass
    \/ display_info_done

SpecWalk == InitWalk /\ [][NextWalk]_vars

\* the loops are run to their end: a pass that can be taken is taken
SpecWalkFair == SpecWalk /\ WF_vars(NextWalk)

\* C29: validate_quest_dat terminates on every buffer and length, the
\* 32-bit walk offset growing strictly with every pass of the loop (so also
\* for a table_body_size near 2^32), in both copies and in the loop of
\* display_info.
C29_WalkTerminates ==
    /\ [][(mode = "walk" /\ toolPc \in {"walk", "display"}
              /\ toolPc' = toolPc)
            => Less32(datWalk.offset, datWalk'.offset)]_vars
    /\ <>(mode = "walk" /\ toolPc = "returned")

\* handle_quest_bin_validation_issues has grown the decompressed .bin by one
\* byte
BinGrown ==
    /\ BinValidated
    /\ decompressed_bin_size = validated.bin_length + 1
    /\ Len(decompressed_bin.tail) = Len(validated.bin_block.tail) + 1

\* C30: once handle_quest_bin_validation_issues has grown the decompressed
\* .bin by one byte, bin_header points into the buffer that decompressed_bin
\* points to and not into the released one, so that the store of the download
\* flag lands in the buffer that is compressed: the compressed image has
\* download = 1 in bindat_to_gcdl and download = 0 in gci_extract.
C30_HeaderFollowsRealloc ==
    (BinGrown /\ toolPc = "compressed") =>
        /\ bin_header = "decompressed_bin"
        /\ output.image.hdr.download
              = IF tool = "bindat_to_gcdl" THEN 1 ELSE 0

=============================================================================
